---- MODULE Spec2Model ----
(***************************************************************************)
(* The load controller of supafirehose (package load), its read and write  *)
(* workers and the connection manager's counter, as a state machine.       *)
(*                                                                         *)
(* Client goroutines (HTTP handlers) call Start, Stop, UpdateConfig,       *)
(* SetScenario and SetConfig on one Controller.  Each worker goroutine     *)
(* runs the loop of ReadWorker.Run / WriteWorker.Run.  The blocking calls  *)
(* of a worker (Connect, Initialize, limiter.Wait, ExecuteRead/Write,      *)
(* time.Sleep) are one step each; their outcome is chosen by the           *)
(* environment.                                                            *)
(***************************************************************************)
EXTENDS Integers, FiniteSets, Sequences, Bags, TLC

(***************************************************************************)
(* Bounds of the model.                                                    *)
(***************************************************************************)
MaxConn == 2
MaxQPS == 2
MaxChurn == 1
MaxFleet == 100
MaxReports == 1
MaxFleetReports == 3
MaxCalls == 2
MaxSnapshots == 1
MaxResets == 1
MaxRingCalls == 23
MaxClock == 110
MaxRateCalls == 3
MaxRateClock == 20
MaxCached == 20001

(***************************************************************************)
(* Program constants.                                                      *)
(***************************************************************************)
InitialReadLimit == 100
InitialWriteLimit == 10
ReaderPercent == 80

Clients == {"c1", "c2"}
NoClient == "none"

(***************************************************************************)
(* Config (type Config) and the payloads the clients send.                 *)
(***************************************************************************)
ZeroConfig ==
    [Connections |-> 0, ReadQPS |-> 0, WriteQPS |-> 0, ChurnRate |-> 0,
     Scenario |-> "", CustomTable |-> ""]

ScenarioInputs == {"", "simple", "jsonb", "custom", "nosuch"}
TableInputs == {"", "t1"}
RateInputs == {0, MaxQPS}
ChurnInputs == {0, MaxChurn}

AllConfigs ==
    [Connections : 0..MaxConn, ReadQPS : RateInputs, WriteQPS : RateInputs,
     ChurnRate : ChurnInputs, Scenario : ScenarioInputs, CustomTable : TableInputs]

BaseConfig ==
    [Connections |-> 1, ReadQPS |-> MaxQPS, WriteQPS |-> MaxQPS, ChurnRate |-> 0,
     Scenario |-> "simple", CustomTable |-> ""]

\* The fields in which two configs differ.
DiffFields(a, b) == {f \in DOMAIN ZeroConfig : a[f] # b[f]}

\* The payloads of UpdateConfig and SetConfig: the configs at most one field
\* away from BaseConfig, and the custom scenario on a named table.
Payloads ==
    {cfg \in AllConfigs :
        \/ Cardinality(DiffFields(cfg, BaseConfig)) <= 1
        \/ DiffFields(cfg, BaseConfig) = {"Scenario", "CustomTable"} /\ cfg.Scenario = "custom"}

(***************************************************************************)
(* Scenario objects.  The registry holds one object per built-in name; a   *)
(* custom scenario is a new object at every creation.  An object is named  *)
(* by id: 0 for the built-ins, and for a custom scenario the least id that *)
(* no reference holds once the new object is installed (the references are *)
(* those of the workers: the controller's is overwritten by the new one).  *)
(* Cancellation tokens are named the same way.                             *)
(***************************************************************************)
Registry == {"simple", "jsonb", "wide", "fk"}

Builtin(name) == [name |-> name, table |-> "", id |-> 0]

NilScenario == [name |-> "", table |-> "", id |-> 0]

\* Registry.Get: the scenario and the ok flag.
RegistryGet(name) ==
    IF name \in Registry THEN [s |-> Builtin(name), ok |-> TRUE]
    ELSE [s |-> NilScenario, ok |-> FALSE]

DefaultScenario == RegistryGet("simple").s

(***************************************************************************)
(* rate.Limiter (golang.org/x/time/rate, a dependency): its limit and     *)
(* burst.  Wait is taken to hand out tokens while the limit is positive    *)
(* and to return an error once its token is cancelled.                     *)
(***************************************************************************)
Max(a, b) == IF a >= b THEN a ELSE b

NewLimiter(limit, burst) == [limit |-> limit, burst |-> burst]

\* Mutant of Retune: the burst is the rate itself.
RetuneNoFloor(lim, qps) == [lim EXCEPT !.limit = qps, !.burst = qps]

\* SetLimit(rate.Limit(qps)) followed by SetBurst(max(qps, 1)).
Retune(lim, qps) == [lim EXCEPT !.limit = qps, !.burst = Max(qps, 1)]

(***************************************************************************)
(* The metrics Collector (package metrics).  A latency histogram is its    *)
(* running count and sum; an error of the ring is its time of admission    *)
(* and its message, the operation's prefix and the error's text.           *)
(***************************************************************************)
MaxRecentErrors == 10
ErrorInterval == 10

NewHistogram == [count |-> 0, sum |-> 0]

\* Histogram.Record(latency).
HistogramRecord(h, latency) == [count |-> h.count + 1, sum |-> h.sum + latency]

\* time.Time{}, and a time of the clock.
ZeroTime == [zero |-> TRUE, t |-> 0]

TimeAt(t) == [zero |-> FALSE, t |-> t]

NewCollector ==
    [readLatencies |-> NewHistogram, writeLatencies |-> NewHistogram,
     readCount |-> 0, writeCount |-> 0, readErrors |-> 0, writeErrors |-> 0,
     totalQueries |-> 0, totalErrors |-> 0,
     recentErrors |-> << >>, lastErrorTime |-> ZeroTime, startTime |-> 0]

\* The last n elements of a sequence of more than n elements.
LastN(seq, n) == IF Len(seq) > n THEN SubSeq(seq, Len(seq) - n + 1, Len(seq)) ELSE seq

\* time.Since(c.lastErrorTime) < 10 * time.Second, at time t.
TooSoon(col, t) == ~col.lastErrorTime.zero /\ t - col.lastErrorTime.t < ErrorInterval

\* Collector.addError(errMsg) at time t.
AddError(col, errMsg, t) ==
    IF TooSoon(col, t) THEN col
    ELSE [col EXCEPT !.lastErrorTime = TimeAt(t),
                     !.recentErrors = LastN(Append(@, [Timestamp |-> t, Message |-> errMsg]),
                                            MaxRecentErrors)]

\* Collector.RecordRead(latency, err) at time t; err is "" for nil.
RecordRead(col, latency, err, t) ==
    LET counted == [col EXCEPT !.readLatencies = HistogramRecord(@, latency),
                               !.readCount = @ + 1,
                               !.totalQueries = @ + 1]
    IN  IF err = "" THEN counted
        ELSE AddError([counted EXCEPT !.readErrors = @ + 1, !.totalErrors = @ + 1],
                      [op |-> "read", err |-> err], t)

\* Collector.RecordWrite(latency, err) at time t.
RecordWrite(col, latency, err, t) ==
    LET counted == [col EXCEPT !.writeLatencies = HistogramRecord(@, latency),
                               !.writeCount = @ + 1,
                               !.totalQueries = @ + 1]
    IN  IF err = "" THEN counted
        ELSE AddError([counted EXCEPT !.writeErrors = @ + 1, !.totalErrors = @ + 1],
                      [op |-> "write", err |-> err], t)

\* MetricsSnapshot.  The window count stands for the QPS (the count divided
\* by the caller's interval), the histogram for the percentiles and average.
MetricsSnapshot(t, readHist, writeHist, readCount, writeCount, readErrors, writeErrors, totalQueries, totalErrors, active, recentErrors) ==
    [Timestamp |-> t,
     Reads |-> [Count |-> readCount, Latency |-> readHist, Errors |-> readErrors],
     Writes |-> [Count |-> writeCount, Latency |-> writeHist, Errors |-> writeErrors],
     Totals |-> [Queries |-> totalQueries, Errors |-> totalErrors],
     Pool |-> [ActiveConnections |-> active],
     RecentErrors |-> recentErrors]

\* The goroutines that call RecordRead and RecordWrite statement by statement.
Recorders == {"r1", "r2"}

\* A caller that is in no call, and the locals of a Snapshot call.
IdleCall == [pc |-> "idle", op |-> "", err |-> ""]

IdleSnapshot ==
    [pc |-> "idle", readHist |-> NewHistogram, writeHist |-> NewHistogram,
     readCount |-> 0, writeCount |-> 0, readErrors |-> 0, writeErrors |-> 0,
     totalQueries |-> 0, totalErrors |-> 0]

\* History of the calls: the numbers of Record, Snapshot and Reset calls begun,
\* the snapshots returned (the last one, and the sum of the read and write
\* window counts of all of them), whether a Reset in progress has run with no
\* other call of the collector (alone), whether such a Reset has returned and
\* no Record or Reset call has begun since (fresh), and whether the last
\* snapshot returned is the first one begun after such a Reset, with no Record
\* call begun before its return (afterReset).
NothingObserved ==
    [calls |-> 0, snapshots |-> 0, resets |-> 0, returned |-> << >>, windows |-> 0,
     alone |-> FALSE, fresh |-> FALSE, afterReset |-> FALSE, admitted |-> << >>]

VARIABLES
    running,            \* Controller.running
    config,             \* Controller.config
    readLimiter,        \* Controller.readLimiter
    writeLimiter,       \* Controller.writeLimiter
    scenario,           \* Controller.scenario
    ctx,                \* Controller.ctx / cancel: id of the token, 0 = nil
    cancelled,          \* the tokens whose cancel function has been called
    wg,                 \* Controller.wg: its counter
    mu,                 \* Controller.mu: the client holding the write lock
    workers,            \* the live worker goroutines, a bag of worker records
    activeConnections,  \* ConnectionManager.activeConnections
    pc,                 \* the position of each client goroutine
    collector,          \* the metrics Collector
    now,                \* the clock (time.Now), in seconds
    recorders,          \* the calls of RecordRead / RecordWrite in progress, by caller
    snapshotter,        \* the call of Snapshot in progress: its position and locals
    resetter,           \* the call of Reset in progress: its position
    observed,           \* what the collector's callers have seen (history)
    scenarios,          \* the scenario objects that differ from a new one
    requests,           \* HandleConfig's local currentConfig, by client
    stopped,            \* "yes" once a client's Stop has returned, "no" once a client has called
                        \* Start (history, kept by the specifications that begin with it)
    last                \* the step that led to this state (history)

vars == <<running, config, readLimiter, writeLimiter, scenario, ctx, cancelled, wg,
          mu, workers, activeConnections, pc, collector, now, recorders, snapshotter,
          resetter, observed, scenarios, requests, stopped, last>>

\* The callers of the collector other than the workers.
callVars == <<recorders, snapshotter, resetter, observed, requests>>

colVars == <<collector, now, callVars>>

loadVars == <<running, config, readLimiter, writeLimiter, scenario, ctx, cancelled, wg,
              mu, workers, activeConnections, pc, scenarios, requests, stopped>>

ctlVars == <<running, config, readLimiter, writeLimiter, scenario, ctx, cancelled>>

(***************************************************************************)
(* The scenario objects: SimpleScenario, JSONBScenario, WideScenario and   *)
(* FKScenario (the four of the registry) and the CustomScenario objects.   *)
(* An object is known by the reference of the workers and the controller;  *)
(* `scenarios` holds the objects that differ from a new one.  Of an object *)
(*   ids          is len(s.ids), the length of the id cache                *)
(*   initialized  is s.initialized (CustomScenario)                        *)
(*   locked       tells that an Initialize call holds s.mu for a discovery *)
(*                (CustomScenario)                                         *)
(*   maxID        is s.maxID, the bound of the integer range               *)
(*   discovered   is what the last discovery found: the columns, the       *)
(*                primary key and the statements built from them           *)
(*   primaryKeyType is s.primaryKeyType                                    *)
(*   discoveries  counts the discoveries that completed (history)          *)
(*   max          is the result of the MAX query of the last discovery     *)
(*                with an integer key (history)                            *)
(***************************************************************************)
\* The rows Initialize asks for, and the capacity ExecuteWrite keeps to.
MaxCachedIDs == 10000

\* The number of rows "SELECT id::text FROM ... LIMIT 10000" returns: an empty
\* table or a failed query, and a table of MaxCachedIDs rows or more.
RowCounts == {0, MaxCachedIDs}

\* The definitions of the table a discovery can find, and the types of its
\* primary key: Initialize takes the integer range for a type whose name
\* holds "int" or "serial" and not "uuid", the id cache for any other.
TableDefs == {"v1", "v2"}

IntegerFamily == {"smallint", "integer", "bigint"}

KeyTypes == IntegerFamily \cup {"uuid", "text", "interval", "point"}

\* The name of a type as format_type writes it, letter by letter.
Spelling ==
    [smallint |-> <<"s", "m", "a", "l", "l", "i", "n", "t">>,
     integer |-> <<"i", "n", "t", "e", "g", "e", "r">>,
     bigint |-> <<"b", "i", "g", "i", "n", "t">>,
     uuid |-> <<"u", "u", "i", "d">>,
     text |-> <<"t", "e", "x", "t">>,
     interval |-> <<"i", "n", "t", "e", "r", "v", "a", "l">>,
     point |-> <<"p", "o", "i", "n", "t">>]

\* strings.ToLower (the names of format_type hold no upper-case letter but
\* those of a quoted type name).
ToLower(name) ==
    [i \in DOMAIN name |->
        CASE name[i] = "I" -> "i" [] name[i] = "N" -> "n" [] name[i] = "T" -> "t"
          [] OTHER -> name[i]]

\* strings.Contains(name, substr).
Contains(name, substr) ==
    \E i \in 1..(Len(name) - Len(substr) + 1) :
        SubSeq(name, i, i + Len(substr) - 1) = substr

\* isIntegerPK: the lower-case name holds "int" or "serial", and not "uuid".
IsIntegerPK(primaryKeyType) ==
    LET lowerType == ToLower(Spelling[primaryKeyType])
    IN  /\ \/ Contains(lowerType, <<"i", "n", "t">>)
           \/ Contains(lowerType, <<"s", "e", "r", "i", "a", "l">>)
        /\ ~Contains(lowerType, <<"u", "u", "i", "d">>)

\* The result of "SELECT MAX(pk)": the query fails, or it returns NULL (val
\* is << >>: the table is empty) or the greatest key.
FailedMax == [err |-> TRUE, val |-> << >>]
NullMax == [err |-> FALSE, val |-> << >>]
MaxOf(v) == [err |-> FALSE, val |-> <<v>>]

\* What Initialize finds in the database: the rows of its id query, the
\* definition of the table, the type of its key and the result of MAX.
Tables(rowCounts, keys, maxes) ==
    [rows : rowCounts, def : TableDefs, key : keys, max : maxes]

EmptyTable == Tables({0}, {"uuid"}, {NullMax})

\* s.maxID as the constructors set it.
InitialMaxID == 100000

NewScenario ==
    [ids |-> 0, maxID |-> InitialMaxID, initialized |-> FALSE, locked |-> FALSE,
     discovered |-> "", primaryKeyType |-> "", discoveries |-> 0, max |-> NullMax]

Object(s) == IF s \in DOMAIN scenarios THEN scenarios[s] ELSE NewScenario

\* The objects once the object s is o.
Put(s, o) ==
    [x \in (IF o = NewScenario THEN DOMAIN scenarios \ {s} ELSE DOMAIN scenarios \cup {s}) |->
        IF x = s THEN o ELSE scenarios[x]]

\* The objects once NewCustomScenario has made the object s: its id is that
\* of no object in use.
Created(s) == [x \in {y \in DOMAIN scenarios : y.id # s.id} |-> scenarios[x]]

\* The objects once SetScenario or UpdateConfig has installed the scenario s,
\* made by CreateCustomScenario or not.
Installed(made, s) == IF made THEN Created(s) ELSE scenarios

\* Where ExecuteRead takes the id it reads: a random entry of the cache when
\* the cache is not empty, else a random integer from 1 to s.maxID when s.maxID
\* is positive; else there is no id and the CustomScenario returns nil with
\* no query.
ReadSource(o) ==
    IF o.ids > 0 THEN "cache"
    ELSE IF o.maxID > 0 THEN "range"
         ELSE "none"

\* The cache after ExecuteWrite has inserted a row: the builtin scenarios
\* cache every new id; the CustomScenario caches it when the cache is not
\* empty or s.maxID is 0.
CacheNewID(s, o) ==
    IF s.name = "custom" /\ ~(o.ids > 0 \/ o.maxID = 0) THEN o
    ELSE IF o.ids < MaxCachedIDs THEN [o EXCEPT !.ids = @ + 1]
         ELSE o

(***************************************************************************)
(* Worker records and the references they hold.                            *)
(***************************************************************************)
LiveWorkers == BagToSet(workers)

\* The least id from 1 that is not in `used`.
LeastFree(used) ==
    CHOOSE k \in 1..(Cardinality(used) + 1) : k \notin used /\ \A j \in 1..(k - 1) : j \in used

\* context.WithCancel(context.Background()): a new token.
FreshToken == LeastFree({w.ctx : w \in LiveWorkers})

\* Registry.CreateCustomScenario(tableName): a new object.
CreateCustomScenario(tableName) ==
    [name |-> "custom", table |-> tableName,
     id |-> LeastFree({w.scenario.id : w \in LiveWorkers})]

\* The step labels (history): the call and its caller, whether the controller
\* was running when the call took the lock, the fields in which the payload
\* differs from the config it replaces, and whether the call repeats the
\* UpdateConfig call that returned in the step before it.
Label(c, op, wasRunning, diff) ==
    [by |-> c, op |-> op, wasRunning |-> wasRunning, diff |-> diff, repeat |-> FALSE]

WorkerLabel == Label(NoClient, "worker", FALSE, {})

\* The label of a worker step that ends a Connect, an Initialize or a query
\* with an outcome to report: the worker's kind, the latency and the error
\* ("" is nil) of the outcome, and whether the worker's token was cancelled.
OutcomeLabel(op, kind, latency, err, done) ==
    [by |-> NoClient, op |-> op, wasRunning |-> FALSE, diff |-> {}, repeat |-> FALSE,
     kind |-> kind, latency |-> latency, err |-> err, done |-> done]

(***************************************************************************)
(* NewController.                                                          *)
(***************************************************************************)
Constructed(history) ==
    /\ running = FALSE
    /\ config = ZeroConfig
    /\ readLimiter = NewLimiter(InitialReadLimit, InitialReadLimit)
    /\ writeLimiter = NewLimiter(InitialWriteLimit, InitialWriteLimit)
    /\ scenario = DefaultScenario
    /\ ctx = 0
    /\ cancelled = {}
    /\ wg = 0
    /\ mu = NoClient
    /\ workers = EmptyBag
    /\ activeConnections = 0
    /\ pc = [c \in Clients |-> "idle"]
    /\ collector = NewCollector
    /\ now = 0
    /\ recorders = [r \in Recorders |-> IdleCall]
    /\ snapshotter = IdleSnapshot
    /\ resetter = "idle"
    /\ observed = NothingObserved
    /\ scenarios = [s \in {} |-> NewScenario]
    /\ requests = [c \in Clients |-> ZeroConfig]
    /\ stopped = history
    /\ last = Label(NoClient, "NewController", FALSE, {})

\* The history of the Stop and Start calls is kept from "no" on, and not kept
\* from Untracked on.
Untracked == "untracked"

Track(value) == IF stopped = Untracked THEN Untracked ELSE value

Init == Constructed(Untracked)

(***************************************************************************)
(* Controller.SetScenario.                                                 *)
(***************************************************************************)
\* The scenario SetScenario installs for a name.
LookupOrSimple(name, customTable) ==
    IF name = "custom" THEN CreateCustomScenario(customTable)
    ELSE IF RegistryGet(name).ok THEN RegistryGet(name).s
         ELSE RegistryGet("simple").s

\* Mutant of SetScenario: the live workers follow the controller's reference.
SetScenarioLive(c, name, customTable) ==
    /\ pc[c] = "idle"
    /\ mu = NoClient
    /\ scenario' = LookupOrSimple(name, customTable)
    /\ config' = [config EXCEPT !.Scenario = name, !.CustomTable = customTable]
    /\ workers' = IF workers = EmptyBag THEN workers
                  ELSE LET w == CHOOSE x \in LiveWorkers : TRUE
                       IN  (workers (-) SetToBag({w})) (+) SetToBag({[w EXCEPT !.scenario = scenario']})
    /\ scenarios' = Installed(name = "custom", scenario')
    /\ last' = Label(c, "SetScenario", running, {})
    /\ UNCHANGED <<stopped, running, readLimiter, writeLimiter, ctx, cancelled, wg, mu,
                   activeConnections, pc, colVars>>

SetScenario(c, name, customTable) ==
    /\ pc[c] = "idle"
    /\ mu = NoClient
    /\ scenario' = LookupOrSimple(name, customTable)
    /\ config' = [config EXCEPT !.Scenario = name, !.CustomTable = customTable]
    /\ scenarios' = Installed(name = "custom", scenario')
    /\ last' = Label(c, "SetScenario", running, {})
    /\ UNCHANGED <<stopped, running, readLimiter, writeLimiter, ctx, cancelled, wg, mu, workers,
                   activeConnections, pc, colVars>>

(***************************************************************************)
(* Controller.SetConfig.                                                   *)
(***************************************************************************)
\* Mutant of SetConfig: the scenario follows the payload, as in UpdateConfig.
SetConfigReconciles(c, cfg) ==
    /\ pc[c] = "idle"
    /\ mu = NoClient
    /\ config' = cfg
    /\ readLimiter' = Retune(readLimiter, cfg.ReadQPS)
    /\ writeLimiter' = Retune(writeLimiter, cfg.WriteQPS)
    /\ scenario' = (IF cfg.Scenario \in {"simple", "jsonb", "wide", "fk"}
                    THEN [name |-> cfg.Scenario, table |-> "", id |-> 0] ELSE scenario)
    /\ last' = Label(c, "SetConfig", running, DiffFields(config, cfg))
    /\ UNCHANGED <<stopped, running, ctx, cancelled, wg, mu, workers, activeConnections, pc, colVars, scenarios>>

SetConfig(c, cfg) ==
    /\ pc[c] = "idle"
    /\ mu = NoClient
    /\ config' = cfg
    /\ readLimiter' = Retune(readLimiter, cfg.ReadQPS)
    /\ writeLimiter' = Retune(writeLimiter, cfg.WriteQPS)
    /\ last' = Label(c, "SetConfig", running, DiffFields(config, cfg))
    /\ UNCHANGED <<stopped, running, scenario, ctx, cancelled, wg, mu, workers, activeConnections, pc, colVars, scenarios>>

(***************************************************************************)
(* Controller.Start.                                                       *)
(***************************************************************************)
\* Mutant of NumReaders: no reader for a fleet of one connection.
NumReadersNoFloor(connections) == (connections * ReaderPercent) \div 100

\* Mutant of NumReaders: one reader at least, whatever the connections.
NumReadersAtLeastOne(connections) ==
    LET n == (connections * ReaderPercent) \div 100
    IN  IF n < 1 THEN 1 ELSE n

\* The 80/20 split of Start.
NumReaders(connections) ==
    LET n == (connections * ReaderPercent) \div 100
    IN  IF n < 1 /\ connections > 0 THEN 1 ELSE n

NumWriters(connections) ==
    LET n == connections - NumReaders(connections)
    IN  IF n < 0 THEN 0 ELSE n

\* Mutant of ChurnPerConn: the division is not guarded.
ChurnPerConnUnguarded(cfg) == [num |-> cfg.ChurnRate, den |-> cfg.Connections]

\* The churn rate per connection, the rational num/den (0 is 0/1).
ChurnPerConn(cfg) ==
    IF cfg.Connections > 0 /\ cfg.ChurnRate > 0
    THEN [num |-> cfg.ChurnRate, den |-> cfg.Connections]
    ELSE [num |-> 0, den |-> 1]

\* A goroutine started by Start, before it has called Run: the closure holds
\* the scenario and the churn rate, and reads c.ctx when it runs.  conns is
\* the number of connections the goroutine has open, inflight the number of
\* scenario operations it has called and that have not returned.
Spawned(kind, scen, churnRate) ==
    [kind |-> kind, pc |-> "spawned", ctx |-> 0, scenario |-> scen,
     churnRate |-> churnRate, initialized |-> FALSE, conns |-> 0, inflight |-> 0]

Copies(w, n) == IF n > 0 THEN [x \in {w} |-> n] ELSE EmptyBag

\* Mutant of StartLocked: no check of running.
StartLockedNoGuard ==
    LET token == FreshToken
        numReaders == NumReaders(config.Connections)
        numWriters == NumWriters(config.Connections)
        churnRate == ChurnPerConn(config)
    IN  /\ ctx' = token
        /\ cancelled' = cancelled \ {token}
        /\ running' = TRUE
        /\ workers' = workers (+) Copies(Spawned("reader", scenario, churnRate), numReaders)
                              (+) Copies(Spawned("writer", scenario, churnRate), numWriters)
        /\ wg' = wg + numReaders + numWriters

\* The body of Start, under the lock.
StartLocked ==
    IF running
    THEN UNCHANGED <<running, ctx, cancelled, workers, wg>>
    ELSE LET token == FreshToken
             numReaders == NumReaders(config.Connections)
             numWriters == NumWriters(config.Connections)
             churnRate == ChurnPerConn(config)
         IN  /\ ctx' = token
             /\ cancelled' = cancelled \ {token}
             /\ running' = TRUE
             /\ workers' = workers (+) Copies(Spawned("reader", scenario, churnRate), numReaders)
                                   (+) Copies(Spawned("writer", scenario, churnRate), numWriters)
             /\ wg' = wg + numReaders + numWriters

\* The label of a Start call: with the churn rate it has computed for its
\* workers, when it has not returned at once.
StartLabel(c) ==
    [by |-> c, op |-> "Start", wasRunning |-> running, diff |-> {}, repeat |-> FALSE,
     churnRate |-> IF running THEN [num |-> 0, den |-> 1] ELSE ChurnPerConn(config)]

Start(c) ==
    /\ pc[c] = "idle"
    /\ mu = NoClient
    /\ StartLocked
    /\ stopped' = Track("no")
    /\ last' = StartLabel(c)
    /\ UNCHANGED <<config, readLimiter, writeLimiter, scenario, mu, activeConnections, pc, colVars, scenarios>>

(***************************************************************************)
(* Controller.Stop.  It keeps the lock while it waits for the workers.     *)
(***************************************************************************)
\* Mutant of StopLocked: no check of running.
StopLockedNoGuard(c, waiting, returned) ==
    /\ cancelled' = cancelled \cup {ctx}
    /\ mu' = c
    /\ pc' = [pc EXCEPT ![c] = waiting]

\* Mutant of StopWaited: Stop does not wait for the workers.
StopWaitedNoWait(c, returned) ==
    /\ mu = c
    /\ running' = FALSE
    /\ mu' = NoClient
    /\ pc' = [pc EXCEPT ![c] = returned]

\* Stop up to wg.Wait(): `waiting` is the position of a caller that has to
\* wait, `returned` the position of one that returns at once.
StopLocked(c, waiting, returned) ==
    IF ~running
    THEN /\ pc' = [pc EXCEPT ![c] = returned]
         /\ UNCHANGED <<cancelled, mu>>
    ELSE /\ cancelled' = cancelled \cup {ctx}
         /\ mu' = c
         /\ pc' = [pc EXCEPT ![c] = waiting]

\* wg.Wait() returns; running = false; the deferred Unlock.
StopWaited(c, returned) ==
    /\ mu = c
    /\ wg = 0
    /\ running' = FALSE
    /\ mu' = NoClient
    /\ pc' = [pc EXCEPT ![c] = returned]

Stop(c) ==
    /\ pc[c] = "idle"
    /\ mu = NoClient
    /\ StopLocked(c, "Stop.wait", "idle")
    /\ stopped' = (IF running THEN stopped ELSE Track("yes"))
    /\ last' = Label(c, "Stop", running, {})
    /\ UNCHANGED <<running, config, readLimiter, writeLimiter, scenario, ctx, wg, workers,
                   activeConnections, colVars, scenarios>>

StopReturn(c) ==
    /\ pc[c] = "Stop.wait"
    /\ StopWaited(c, "idle")
    /\ stopped' = Track("yes")
    /\ last' = Label(c, "StopReturn", TRUE, {})
    /\ UNCHANGED <<config, readLimiter, writeLimiter, scenario, ctx, cancelled, wg, workers,
                   activeConnections, colVars, scenarios>>

(***************************************************************************)
(* Controller.UpdateConfig.                                                *)
(***************************************************************************)
ScenarioChanged(old, cfg) ==
    old.Scenario # cfg.Scenario \/ old.CustomTable # cfg.CustomTable

\* Mutant of NeedsRestart: a change of the custom table alone is not seen.
NeedsRestartNoTable(isRunning, old, cfg) ==
    isRunning /\ (\/ old.Connections # cfg.Connections
                  \/ old.ChurnRate # cfg.ChurnRate
                  \/ old.Scenario # cfg.Scenario)

\* Mutant of NeedsRestart: a change of the connection count alone is not seen.
NeedsRestartNoCount(isRunning, old, cfg) ==
    isRunning /\ (old.ChurnRate # cfg.ChurnRate \/ ScenarioChanged(old, cfg))

\* Mutant of NeedsRestart: a running controller restarts on every update.
NeedsRestartAlways(isRunning, old, cfg) == isRunning

NeedsRestart(isRunning, old, cfg) ==
    isRunning /\ (\/ old.Connections # cfg.Connections
                  \/ old.ChurnRate # cfg.ChurnRate
                  \/ ScenarioChanged(old, cfg))

\* Mutant of UpdatedScenario: UpdateConfig leaves the scenario reference.
UpdatedScenarioKept(old, cfg) == scenario

\* The scenario after "Update scenario if changed".
UpdatedScenario(old, cfg) ==
    IF ScenarioChanged(old, cfg)
    THEN IF cfg.Scenario = "custom" THEN CreateCustomScenario(cfg.CustomTable)
         ELSE IF cfg.Scenario # "" /\ RegistryGet(cfg.Scenario).ok
              THEN RegistryGet(cfg.Scenario).s
              ELSE scenario
    ELSE scenario

\* The step before was the return of an UpdateConfig call.
UpdateReturned ==
    \/ last.op = "UpdateStart"
    \/ last.op = "UpdateConfig" /\ \A c \in Clients : pc[c] = "idle"

\* UpdateConfig from Lock to Unlock.
UpdateConfig(c, cfg) ==
    /\ pc[c] = "idle"
    /\ mu = NoClient
    /\ config' = cfg
    /\ readLimiter' = Retune(readLimiter, cfg.ReadQPS)
    /\ writeLimiter' = Retune(writeLimiter, cfg.WriteQPS)
    /\ scenario' = UpdatedScenario(config, cfg)
    /\ scenarios' = Installed(ScenarioChanged(config, cfg) /\ cfg.Scenario = "custom", scenario')
    /\ pc' = [pc EXCEPT ![c] = IF NeedsRestart(running, config, cfg) THEN "Update.stop" ELSE "idle"]
    /\ last' = [Label(c, "UpdateConfig", running, DiffFields(config, cfg))
                 EXCEPT !.repeat = UpdateReturned /\ cfg = config]
    /\ UNCHANGED <<stopped, running, ctx, cancelled, wg, mu, workers, activeConnections, colVars>>

\* HandleConfig reads the config for its defaults: h.controller.GetConfig(),
\* under the read lock.
HandleConfigRead(c) ==
    /\ pc[c] = "idle"
    /\ mu = NoClient
    /\ requests' = [requests EXCEPT ![c] = config]
    /\ pc' = [pc EXCEPT ![c] = "HandleConfig"]
    /\ last' = Label(c, "GetConfig", running, {})
    /\ UNCHANGED <<stopped, running, config, readLimiter, writeLimiter, scenario, ctx, cancelled, wg, mu,
                   workers, activeConnections, collector, now, recorders, snapshotter, resetter,
                   observed, scenarios>>

\* The config HandleConfig builds from the request req ("" is a missing
\* field) and the config it has read.
RequestConfig(req, currentConfig) ==
    LET name == IF req.Scenario = "" THEN currentConfig.Scenario ELSE req.Scenario
        customTable == IF req.CustomTable = "" /\ name = currentConfig.Scenario
                       THEN currentConfig.CustomTable
                       ELSE req.CustomTable
    IN  [Connections |-> req.Connections, ReadQPS |-> req.ReadQPS, WriteQPS |-> req.WriteQPS,
         ChurnRate |-> req.ChurnRate, Scenario |-> name, CustomTable |-> customTable]

\* The label of the UpdateConfig call of a HandleConfig: with the request and
\* the config the call has built from it.
RequestLabel(c, req, cfg) ==
    [by |-> c, op |-> "HandleConfig", wasRunning |-> running, diff |-> DiffFields(config, cfg),
     repeat |-> FALSE, req |-> req, cfg |-> cfg]

\* h.controller.UpdateConfig(cfg) of HandleConfig, from Lock to Unlock.
HandleConfigUpdate(c, req) ==
    /\ pc[c] = "HandleConfig"
    /\ mu = NoClient
    /\ LET cfg == RequestConfig(req, requests[c])
       IN  /\ config' = cfg
           /\ readLimiter' = Retune(readLimiter, cfg.ReadQPS)
           /\ writeLimiter' = Retune(writeLimiter, cfg.WriteQPS)
           /\ scenario' = UpdatedScenario(config, cfg)
           /\ scenarios' = Installed(ScenarioChanged(config, cfg) /\ cfg.Scenario = "custom", scenario')
           /\ pc' = [pc EXCEPT ![c] = IF NeedsRestart(running, config, cfg) THEN "Update.stop"
                                       ELSE "idle"]
           /\ last' = RequestLabel(c, req, cfg)
    /\ UNCHANGED <<stopped, running, ctx, cancelled, wg, mu, workers, activeConnections, colVars>>

\* c.Stop() of the restart.
UpdateStop(c) ==
    /\ pc[c] = "Update.stop"
    /\ mu = NoClient
    /\ StopLocked(c, "Update.wait", "Update.start")
    /\ last' = Label(c, "UpdateStop", running, {})
    /\ UNCHANGED <<stopped, running, config, readLimiter, writeLimiter, scenario, ctx, wg, workers,
                   activeConnections, colVars, scenarios>>

UpdateStopReturn(c) ==
    /\ pc[c] = "Update.wait"
    /\ StopWaited(c, "Update.start")
    /\ last' = Label(c, "UpdateStopReturn", TRUE, {})
    /\ UNCHANGED <<stopped, config, readLimiter, writeLimiter, scenario, ctx, cancelled, wg, workers,
                   activeConnections, colVars, scenarios>>

\* c.Start() of the restart.
UpdateStart(c) ==
    /\ pc[c] = "Update.start"
    /\ mu = NoClient
    /\ StartLocked
    /\ pc' = [pc EXCEPT ![c] = "idle"]
    /\ last' = Label(c, "UpdateStart", running, {})
    /\ UNCHANGED <<stopped, config, readLimiter, writeLimiter, scenario, mu, activeConnections, colVars, scenarios>>


(***************************************************************************)
(* ReadWorker.Run and WriteWorker.Run (the two are the same loop; a reader *)
(* waits on the read limiter and calls ExecuteRead, a writer on the write  *)
(* limiter and ExecuteWrite).  A worker record holds the position in the   *)
(* loop; it holds a connection from a successful Connect to Release.       *)
(*   spawned       the goroutine has not yet called Run(c.ctx)             *)
(*   top           the select at the top of Run's loop                     *)
(*   connecting    in connMgr.Connect(ctx)                                 *)
(*   backoff       in time.Sleep(100 ms)                                   *)
(*   initializing  in scenario.Initialize(ctx, conn)                       *)
(*   discovering   in CustomScenario.Initialize, holding s.mu               *)
(*   loop          the select at the top of runWithConnection's loop       *)
(*   waiting       in limiter.Wait(ctx)                                    *)
(*   executing     in scenario.ExecuteRead / ExecuteWrite                  *)
(*   closing       in conn.Close, before connMgr.Release                   *)
(* A worker reports to the collector with RecordRead (a reader) or         *)
(* RecordWrite (a writer); the collector takes the report in one step.     *)
(***************************************************************************)
HoldsConn(w) ==
    w.pc \in {"initializing", "discovering", "loop", "waiting", "executing", "closing"}

Done(w) == w.ctx \in cancelled

LimiterOf(w) == IF w.kind = "reader" THEN readLimiter ELSE writeLimiter

\* The worker w moves on as w2.
Becomes(w, w2) == workers' = (workers (-) SetToBag({w})) (+) SetToBag({w2})

At(w, position) == [w EXCEPT !.pc = position]

\* Run returns; the deferred wg.Done().
Returns(w) ==
    /\ workers' = workers (-) SetToBag({w})
    /\ wg' = wg - 1

workerFrame == <<running, config, readLimiter, writeLimiter, scenario, ctx, cancelled, mu, pc,
                 callVars, stopped>>

\* The latency an operation is measured with (a failed Connect or Initialize
\* is reported with latency 0), and the texts of its errors ("" is nil).
Latencies == {2}

QueryOutcomes == {"", "query failed"}

\* w.collector.RecordRead(latency, err) or w.collector.RecordWrite(latency, err).
Record(w, latency, err) ==
    IF w.kind = "reader" THEN RecordRead(collector, latency, err, now)
    ELSE RecordWrite(collector, latency, err, now)

\* worker.Run(c.ctx): the goroutine reads c.ctx and enters the loop.
WorkerRun(w) ==
    /\ w.pc = "spawned"
    /\ Becomes(w, [w EXCEPT !.pc = "top", !.ctx = ctx])
    /\ last' = WorkerLabel
    /\ UNCHANGED <<workerFrame, wg, activeConnections, colVars, scenarios>>

\* select { case <-ctx.Done(): return; default: } and the call of Connect.
WorkerTop(w) ==
    /\ w.pc = "top"
    /\ IF Done(w)
       THEN Returns(w)
       ELSE Becomes(w, At(w, "connecting")) /\ UNCHANGED wg
    /\ last' = WorkerLabel
    /\ UNCHANGED <<workerFrame, activeConnections, colVars, scenarios>>

\* Connect succeeds: the manager counts the connection.
ConnectOk(w) ==
    /\ w.pc = "connecting"
    /\ activeConnections' = activeConnections + 1
    /\ Becomes(w, [w EXCEPT !.pc = IF w.initialized THEN "loop" ELSE "initializing",
                             !.conns = @ + 1])
    /\ last' = WorkerLabel
    /\ UNCHANGED <<workerFrame, wg, colVars, scenarios>>

\* Mutant of ConnectFail: the worker gives up at the first failure.
ConnectFailExits(w) ==
    /\ w.pc = "connecting"
    /\ Returns(w)
    /\ collector' = (IF Done(w) THEN collector ELSE Record(w, 0, "failed to connect"))
    /\ last' = OutcomeLabel("ConnectFail", w.kind, 0, "failed to connect", Done(w))
    /\ UNCHANGED <<workerFrame, activeConnections, now, scenarios>>

\* Mutant of ConnectFail: the failure counts as an error but not as an
\* operation.
ConnectFailErrorOnly(w) ==
    /\ w.pc = "connecting"
    /\ IF Done(w)
       THEN Returns(w) /\ UNCHANGED collector
       ELSE /\ collector' = [Record(w, 0, "failed to connect") EXCEPT
                                !.totalQueries = @ - 1,
                                !.readCount = IF w.kind = "reader" THEN @ - 1 ELSE @,
                                !.writeCount = IF w.kind = "writer" THEN @ - 1 ELSE @]
            /\ Becomes(w, At(w, "backoff"))
            /\ UNCHANGED wg
    /\ last' = OutcomeLabel("ConnectFail", w.kind, 0, "failed to connect", Done(w))
    /\ UNCHANGED <<workerFrame, activeConnections, now, scenarios>>

\* Connect fails: return when the token is cancelled, else record and back off.
ConnectFail(w) ==
    /\ w.pc = "connecting"
    /\ IF Done(w)
       THEN Returns(w) /\ UNCHANGED collector
       ELSE /\ collector' = Record(w, 0, "failed to connect")
            /\ Becomes(w, At(w, "backoff"))
            /\ UNCHANGED wg
    /\ last' = OutcomeLabel("ConnectFail", w.kind, 0, "failed to connect", Done(w))
    /\ UNCHANGED <<workerFrame, activeConnections, now, scenarios>>

\* time.Sleep(100 * time.Millisecond); continue.
Backoff(w) ==
    /\ w.pc = "backoff"
    /\ Becomes(w, At(w, "top"))
    /\ last' = WorkerLabel
    /\ UNCHANGED <<workerFrame, wg, activeConnections, colVars, scenarios>>

\* Mutant of Discover: no s.mu and no test of s.initialized.
DiscoverUnguarded(w) ==
    /\ w.pc = "initializing"
    /\ w.scenario.name = "custom"
    /\ scenarios' = Put(w.scenario, [Object(w.scenario) EXCEPT !.locked = TRUE])
    /\ Becomes(w, At(w, "discovering"))
    /\ last' = WorkerLabel
    /\ UNCHANGED <<workerFrame, wg, activeConnections, collector, now>>

\* CustomScenario.Initialize takes s.mu, finds the object not initialized and
\* begins the discovery; it holds s.mu until it returns.
Discover(w) ==
    /\ w.pc = "initializing"
    /\ w.scenario.name = "custom"
    /\ ~Object(w.scenario).locked
    /\ ~Object(w.scenario).initialized
    /\ scenarios' = Put(w.scenario, [Object(w.scenario) EXCEPT !.locked = TRUE])
    /\ Becomes(w, At(w, "discovering"))
    /\ last' = WorkerLabel
    /\ UNCHANGED <<workerFrame, wg, activeConnections, collector, now>>

\* s.maxID after the integer strategy of Initialize: the greatest key when
\* the MAX query returned one, and 1 at least.
MaxIDLoaded(maxID, max) ==
    LET loaded == IF ~max.err /\ max.val # << >> THEN max.val[1] ELSE maxID
    IN  IF loaded < 1 THEN 1 ELSE loaded

\* The object of w's scenario after Initialize has returned nil, having found
\* the table t.  A scenario of the registry
\* appends the rows of its query to the cache (none when the query fails).
\* The CustomScenario returns at once when it is initialized; at the end of
\* a discovery it has appended the rows (none with an integer key), built its
\* statements and set s.initialized.
Initialized(w, t) ==
    LET o == Object(w.scenario)
    IN  IF w.scenario.name # "custom" THEN [o EXCEPT !.ids = @ + t.rows]
        ELSE IF w.pc = "discovering"
             THEN [o EXCEPT !.ids = IF IsIntegerPK(t.key) THEN @ ELSE @ + t.rows,
                            !.maxID = IF IsIntegerPK(t.key) THEN MaxIDLoaded(@, t.max) ELSE @,
                            !.max = IF IsIntegerPK(t.key) THEN t.max ELSE @,
                            !.discovered = t.def, !.primaryKeyType = t.key,
                            !.initialized = TRUE, !.locked = FALSE, !.discoveries = @ + 1]
             ELSE o

\* Initialize succeeds, with what it finds in the database drawn from
\* `tables`; runWithConnection begins.
InitializeOk(w, tables) ==
    /\ IF w.pc = "initializing" /\ w.scenario.name = "custom"
       THEN Object(w.scenario).initialized /\ ~Object(w.scenario).locked
       ELSE w.pc \in {"initializing", "discovering"}
    /\ \E t \in tables : scenarios' = Put(w.scenario, Initialized(w, t))
    /\ Becomes(w, [w EXCEPT !.pc = "loop", !.initialized = TRUE])
    /\ last' = OutcomeLabel("InitializeOk", w.kind, 0, "", Done(w))
    /\ UNCHANGED <<workerFrame, wg, activeConnections, collector, now>>

\* Mutant of InitializeFail: the connection is closed and not released.
InitializeFailNoRelease(w) ==
    /\ w.pc = "discovering"
    /\ scenarios' = Put(w.scenario, [Object(w.scenario) EXCEPT !.locked = FALSE])
    /\ collector' = Record(w, 0, "initialize failed")
    /\ Becomes(w, [w EXCEPT !.pc = "backoff", !.conns = @ - 1])
    /\ last' = OutcomeLabel("InitializeFail", w.kind, 0, "initialize failed", Done(w))
    /\ UNCHANGED <<workerFrame, wg, activeConnections, now>>

\* Mutant of InitializeFail: the worker takes the scenario for initialized.
InitializeFailGivesUp(w) ==
    /\ w.pc = "discovering"
    /\ scenarios' = Put(w.scenario, [Object(w.scenario) EXCEPT !.locked = FALSE])
    /\ collector' = Record(w, 0, "initialize failed")
    /\ activeConnections' = activeConnections - 1
    /\ Becomes(w, [w EXCEPT !.pc = "backoff", !.conns = @ - 1, !.initialized = TRUE])
    /\ last' = OutcomeLabel("InitializeFail", w.kind, 0, "initialize failed", Done(w))
    /\ UNCHANGED <<workerFrame, wg, now>>

\* Initialize fails (a query of the discovery fails; the scenarios of the
\* registry return no error): s.mu is given up, then record, Close, Release
\* and back off.
InitializeFail(w) ==
    /\ w.pc = "discovering"
    /\ scenarios' = Put(w.scenario, [Object(w.scenario) EXCEPT !.locked = FALSE])
    /\ collector' = Record(w, 0, "initialize failed")
    /\ activeConnections' = activeConnections - 1
    /\ Becomes(w, [w EXCEPT !.pc = "backoff", !.conns = @ - 1])
    /\ last' = OutcomeLabel("InitializeFail", w.kind, 0, "initialize failed", Done(w))
    /\ UNCHANGED <<workerFrame, wg, now>>

\* The select of runWithConnection: return on cancellation or when the churn
\* deadline has passed (possible only with a positive churn rate), else call Wait.
LoopTop(w) ==
    /\ w.pc = "loop"
    /\ \E churnDue \in (IF w.churnRate.num > 0 THEN BOOLEAN ELSE {FALSE}) :
          Becomes(w, At(w, IF Done(w) \/ churnDue THEN "closing" ELSE "waiting"))
    /\ last' = WorkerLabel
    /\ UNCHANGED <<workerFrame, wg, activeConnections, colVars, scenarios>>

\* limiter.Wait returns nil: a limiter of a positive limit hands out a token
\* (the tokens of the bucket are not part of this state), and the worker calls
\* the scenario's operation.
WaitOk(w) ==
    /\ w.pc = "waiting"
    /\ LimiterOf(w).limit > 0
    /\ Becomes(w, [w EXCEPT !.pc = "executing", !.inflight = @ + 1])
    /\ last' = WorkerLabel
    /\ UNCHANGED <<workerFrame, wg, activeConnections, colVars, scenarios>>

\* The limiter of w's kind becomes lim.
LimiterBecomes(w, lim) ==
    IF w.kind = "reader"
    THEN readLimiter' = lim /\ UNCHANGED writeLimiter
    ELSE writeLimiter' = lim /\ UNCHANGED readLimiter

\* limiter.Wait on a limiter of limit 0 returns nil while the burst lasts:
\* the bucket refills at rate 0, and the request is taken from the burst that
\* SetBurst(max(qps, 1)) has left.
WaitBurst(w) ==
    /\ w.pc = "waiting"
    /\ ~Done(w)
    /\ LimiterOf(w).limit = 0
    /\ LimiterOf(w).burst >= 1
    /\ LimiterBecomes(w, [LimiterOf(w) EXCEPT !.burst = @ - 1])
    /\ Becomes(w, [w EXCEPT !.pc = "executing", !.inflight = @ + 1])
    /\ last' = WorkerLabel
    /\ UNCHANGED <<stopped, running, config, scenario, ctx, cancelled, mu, pc, callVars, wg,
                   activeConnections, collector, now, scenarios>>

\* limiter.Wait on a limiter of limit 0 whose burst is used up: the request
\* exceeds the burst and Wait returns an error at once (the worker leaves
\* runWithConnection), or it waits for a token that never comes, until the
\* token of the worker is cancelled (WaitCancelled).
WaitExceeds(w) ==
    /\ w.pc = "waiting"
    /\ LimiterOf(w).limit = 0
    /\ LimiterOf(w).burst < 1
    /\ Becomes(w, At(w, "closing"))
    /\ last' = WorkerLabel
    /\ UNCHANGED <<workerFrame, wg, activeConnections, colVars, scenarios>>

\* Mutant of WaitCancelled: Wait is given a token that is never cancelled.
WaitNotCancellable(w) ==
    /\ w.pc = "waiting"
    /\ FALSE
    /\ UNCHANGED vars

\* limiter.Wait returns the token's error.
WaitCancelled(w) ==
    /\ w.pc = "waiting"
    /\ Done(w)
    /\ Becomes(w, At(w, "closing"))
    /\ last' = WorkerLabel
    /\ UNCHANGED <<workerFrame, wg, activeConnections, colVars, scenarios>>

\* Mutant of Execute: the worker goes on while its operation is in flight.
ExecutePipelined(w) ==
    /\ w.pc = "executing"
    /\ \E latency \in Latencies, err \in QueryOutcomes :
          /\ collector' = (IF err # "" /\ Done(w) THEN collector ELSE Record(w, latency, err))
          /\ scenarios' = (IF w.kind = "writer" /\ err = ""
                            THEN Put(w.scenario, CacheNewID(w.scenario, Object(w.scenario)))
                            ELSE scenarios)
          /\ last' = OutcomeLabel("Execute", w.kind, latency, err, Done(w))
    /\ Becomes(w, At(w, "loop"))
    /\ UNCHANGED <<workerFrame, wg, activeConnections, now>>

\* Mutant of Execute: an error seen under a cancelled token is reported too.
ExecuteReportsAll(w) ==
    /\ w.pc = "executing"
    /\ \E latency \in Latencies, err \in QueryOutcomes :
          /\ collector' = Record(w, latency, err)
          /\ scenarios' = (IF w.kind = "writer" /\ err = ""
                            THEN Put(w.scenario, CacheNewID(w.scenario, Object(w.scenario)))
                            ELSE scenarios)
          /\ last' = OutcomeLabel("Execute", w.kind, latency, err, Done(w))
    /\ Becomes(w, [w EXCEPT !.pc = "loop", !.inflight = @ - 1])
    /\ UNCHANGED <<workerFrame, wg, activeConnections, now>>

\* executeRead / executeWrite: the operation returns, with or without an error,
\* and is recorded with its latency unless it failed under a cancelled token.
Execute(w) ==
    /\ w.pc = "executing"
    /\ \E latency \in Latencies, err \in QueryOutcomes :
          /\ w.kind = "reader" /\ ReadSource(Object(w.scenario)) = "none" => err = ""
          /\ collector' = (IF err # "" /\ Done(w) THEN collector ELSE Record(w, latency, err))
          /\ scenarios' = (IF w.kind = "writer" /\ err = ""
                            THEN Put(w.scenario, CacheNewID(w.scenario, Object(w.scenario)))
                            ELSE scenarios)
          /\ last' = OutcomeLabel("Execute", w.kind, latency, err, Done(w))
    /\ Becomes(w, [w EXCEPT !.pc = "loop", !.inflight = @ - 1])
    /\ UNCHANGED <<workerFrame, wg, activeConnections, now>>

\* Mutant of CloseConn: the connection is closed and not released.
CloseConnNoRelease(w) ==
    /\ w.pc = "closing"
    /\ Becomes(w, [w EXCEPT !.pc = "top", !.conns = @ - 1])
    /\ last' = WorkerLabel
    /\ UNCHANGED <<workerFrame, wg, activeConnections, colVars, scenarios>>

\* conn.Close(context.Background()); connMgr.Release().
CloseConn(w) ==
    /\ w.pc = "closing"
    /\ activeConnections' = activeConnections - 1
    /\ Becomes(w, [w EXCEPT !.pc = "top", !.conns = @ - 1])
    /\ last' = WorkerLabel
    /\ UNCHANGED <<workerFrame, wg, colVars, scenarios>>

(***************************************************************************)
(* runWithConnection with its clock: the worker keeps the lifetime it has  *)
(* drawn for the connection and the deadline churnAfter, and the select    *)
(* compares the deadline with the time (LoopTop leaves the time out).      *)
(***************************************************************************)
MinLifetime == 100
MaxLifetime == 60000

\* The values of rand.ExpFloat64(), in hundredths.
Samples == {0, 5, 100, 10000}

\* Mutant of Lifetime: the lifetime is not clamped.
LifetimeUnclamped(rate, sample) == (sample * ((1000 * rate.den) \div rate.num)) \div 100

\* The lifetime in milliseconds of a connection with a churn rate above 0:
\* the sample times the average lifetime 1 s / rate, within
\* [100 ms, 60 s].
Lifetime(rate, sample) ==
    LET avgLifetime == (1000 * rate.den) \div rate.num
        lifetime == (sample * avgLifetime) \div 100
    IN  Max(MinLifetime, IF lifetime > MaxLifetime THEN MaxLifetime ELSE lifetime)

\* time.Now().Add(lifetime), in milliseconds.
NowAdd(lifetime) == [zero |-> FALSE, t |-> now * 1000 + lifetime]

\* time.Now().After(t).
NowAfter(t) == t.zero \/ now * 1000 > t.t

HasDeadline(w) == "churnAfter" \in DOMAIN w

\* The worker w in runWithConnection with its locals, and without them.
Timed(w, lifetime, churnAfter) ==
    [kind |-> w.kind, pc |-> w.pc, ctx |-> w.ctx, scenario |-> w.scenario,
     churnRate |-> w.churnRate, initialized |-> w.initialized, conns |-> w.conns,
     inflight |-> w.inflight, lifetime |-> lifetime, churnAfter |-> churnAfter]

Untimed(w) ==
    [kind |-> w.kind, pc |-> w.pc, ctx |-> w.ctx, scenario |-> w.scenario,
     churnRate |-> w.churnRate, initialized |-> w.initialized, conns |-> w.conns,
     inflight |-> w.inflight]

\* runWithConnection begins: with a churn rate above 0 it draws the lifetime
\* of the connection and sets churnAfter; else churnAfter is the zero time.
ChurnAfter(w, sample) ==
    /\ w.pc = "loop"
    /\ ~HasDeadline(w)
    /\ Becomes(w, IF w.churnRate.num > 0
                  THEN Timed(w, Lifetime(w.churnRate, sample),
                             NowAdd(Lifetime(w.churnRate, sample)))
                  ELSE Timed(w, 0, ZeroTime))
    /\ last' = WorkerLabel
    /\ UNCHANGED <<workerFrame, wg, activeConnections, colVars, scenarios>>

\* The select of runWithConnection: return on cancellation or when the time
\* is after churnAfter under a churn rate above 0, else call Wait.
LoopTopTimed(w) ==
    /\ w.pc = "loop"
    /\ HasDeadline(w)
    /\ LET churnDue == w.churnRate.num > 0 /\ NowAfter(w.churnAfter)
       IN  Becomes(w, At(w, IF Done(w) \/ churnDue THEN "closing" ELSE "waiting"))
    /\ last' = WorkerLabel
    /\ UNCHANGED <<workerFrame, wg, activeConnections, colVars, scenarios>>

\* conn.Close(context.Background()); connMgr.Release(), after
\* runWithConnection has returned.
CloseConnTimed(w) ==
    /\ w.pc = "closing"
    /\ HasDeadline(w)
    /\ activeConnections' = activeConnections - 1
    /\ Becomes(w, Untimed([w EXCEPT !.pc = "top", !.conns = @ - 1]))
    /\ last' = WorkerLabel
    /\ UNCHANGED <<workerFrame, wg, colVars, scenarios>>

WorkerStep(w) ==
    \/ WorkerRun(w)
    \/ WorkerTop(w)
    \/ ConnectOk(w)
    \/ ConnectFail(w)
    \/ Backoff(w)
    \/ Discover(w)
    \/ InitializeOk(w, EmptyTable)
    \/ InitializeFail(w)
    \/ LoopTop(w)
    \/ WaitOk(w)
    \/ WaitBurst(w)
    \/ WaitExceeds(w)
    \/ WaitCancelled(w)
    \/ Execute(w)
    \/ CloseConn(w)

(***************************************************************************)
(* The Collector's methods statement by statement: every atomic operation  *)
(* and every critical section of c.mu is one step, so that calls of        *)
(* RecordRead, RecordWrite, Snapshot and Reset interleave.  Snapshot has   *)
(* one caller (the broadcast loop), Reset one (HandleReset).               *)
(***************************************************************************)
\* The labels of the steps: the return of Snapshot or Reset and the addError
\* of a Record call are named, the other statements are not told apart.
CallLabel(caller, op) == Label(caller, op, FALSE, {})

CollectorLabel == CallLabel(NoClient, "collector")

CallAt(r, position) == recorders' = [recorders EXCEPT ![r].pc = position]

\* RecordRead / RecordWrite is called: c.readLatencies.Record(latency).
RecordBegin(r, op, latency, err) ==
    /\ recorders[r].pc = "idle"
    /\ collector' = IF op = "read"
                     THEN [collector EXCEPT !.readLatencies = HistogramRecord(@, latency)]
                     ELSE [collector EXCEPT !.writeLatencies = HistogramRecord(@, latency)]
    /\ recorders' = [recorders EXCEPT ![r] = [pc |-> "count", op |-> op, err |-> err]]
    /\ observed' = [observed EXCEPT !.calls = @ + 1, !.alone = FALSE, !.fresh = FALSE]
    /\ last' = CollectorLabel
    /\ UNCHANGED <<loadVars, now, snapshotter, resetter>>

\* atomic.AddInt64(&c.readCount, 1).
RecordCount(r) ==
    /\ recorders[r].pc = "count"
    /\ collector' = IF recorders[r].op = "read"
                     THEN [collector EXCEPT !.readCount = @ + 1]
                     ELSE [collector EXCEPT !.writeCount = @ + 1]
    /\ CallAt(r, "total")
    /\ last' = CollectorLabel
    /\ UNCHANGED <<loadVars, now, snapshotter, resetter, observed>>

\* c.totalQueries.Add(1), and the return when err is nil.
RecordTotal(r) ==
    /\ recorders[r].pc = "total"
    /\ collector' = [collector EXCEPT !.totalQueries = @ + 1]
    /\ recorders' = [recorders EXCEPT ![r] = IF @.err = "" THEN IdleCall
                                                ELSE [@ EXCEPT !.pc = "errors"]]
    /\ last' = CollectorLabel
    /\ UNCHANGED <<loadVars, now, snapshotter, resetter, observed>>

\* atomic.AddInt64(&c.readErrors, 1).
RecordErrors(r) ==
    /\ recorders[r].pc = "errors"
    /\ collector' = IF recorders[r].op = "read"
                     THEN [collector EXCEPT !.readErrors = @ + 1]
                     ELSE [collector EXCEPT !.writeErrors = @ + 1]
    /\ CallAt(r, "totalErrors")
    /\ last' = CollectorLabel
    /\ UNCHANGED <<loadVars, now, snapshotter, resetter, observed>>

\* c.totalErrors.Add(1).
RecordTotalErrors(r) ==
    /\ recorders[r].pc = "totalErrors"
    /\ collector' = [collector EXCEPT !.totalErrors = @ + 1]
    /\ CallAt(r, "addError")
    /\ last' = CollectorLabel
    /\ UNCHANGED <<loadVars, now, snapshotter, resetter, observed>>

\* The entry addError builds for the call of r.
ErrorEntry(r) ==
    [Timestamp |-> now, Message |-> [op |-> recorders[r].op, err |-> recorders[r].err]]

\* The errors admitted since construction or the last Reset, with the call of
\* r: it is admitted unless addError returns early.
Admit(r, early) ==
    [observed EXCEPT !.admitted = IF early THEN @ ELSE Append(@, ErrorEntry(r))]

\* Mutant of RecordAddError: every error is admitted to the ring.
RecordAddErrorAlways(r) ==
    /\ recorders[r].pc = "addError"
    /\ collector' = [collector EXCEPT
                        !.lastErrorTime = TimeAt(now),
                        !.recentErrors =
                            LastN(Append(@, [Timestamp |-> now,
                                             Message |-> [op |-> recorders[r].op,
                                                          err |-> recorders[r].err]]),
                                  MaxRecentErrors)]
    /\ recorders' = [recorders EXCEPT ![r] = IdleCall]
    /\ observed' = Admit(r, FALSE)
    /\ last' = CallLabel(r, "RecordAddError")
    /\ UNCHANGED <<loadVars, now, snapshotter, resetter>>

\* Mutant of RecordAddError: the ring is not trimmed.
RecordAddErrorNoTrim(r) ==
    /\ recorders[r].pc = "addError"
    /\ collector' = IF TooSoon(collector, now) THEN collector
                     ELSE [collector EXCEPT
                              !.lastErrorTime = TimeAt(now),
                              !.recentErrors =
                                  Append(@, [Timestamp |-> now,
                                             Message |-> [op |-> recorders[r].op,
                                                          err |-> recorders[r].err]])]
    /\ recorders' = [recorders EXCEPT ![r] = IdleCall]
    /\ observed' = Admit(r, TooSoon(collector, now))
    /\ last' = CallLabel(r, "RecordAddError")
    /\ UNCHANGED <<loadVars, now, snapshotter, resetter>>

\* c.addError("read: " + err.Error()), under c.mu, and the return.
RecordAddError(r) ==
    /\ recorders[r].pc = "addError"
    /\ collector' = AddError(collector, [op |-> recorders[r].op, err |-> recorders[r].err], now)
    /\ recorders' = [recorders EXCEPT ![r] = IdleCall]
    /\ observed' = Admit(r, TooSoon(collector, now))
    /\ last' = CallLabel(r, "RecordAddError")
    /\ UNCHANGED <<loadVars, now, snapshotter, resetter>>

SnapshotAt(position) == [snapshotter EXCEPT !.pc = position]

\* Snapshot is called: readHist := c.readLatencies.SnapshotAndReset().
SnapshotBegin ==
    /\ snapshotter.pc = "idle"
    /\ snapshotter' = [IdleSnapshot EXCEPT !.pc = "writeLatencies",
                                            !.readHist = collector.readLatencies]
    /\ collector' = [collector EXCEPT !.readLatencies = NewHistogram]
    /\ observed' = [observed EXCEPT !.snapshots = @ + 1, !.alone = FALSE]
    /\ last' = CollectorLabel
    /\ UNCHANGED <<loadVars, now, recorders, resetter>>

\* writeHist := c.writeLatencies.SnapshotAndReset().
SnapshotWriteLatencies ==
    /\ snapshotter.pc = "writeLatencies"
    /\ snapshotter' = [SnapshotAt("readCount") EXCEPT !.writeHist = collector.writeLatencies]
    /\ collector' = [collector EXCEPT !.writeLatencies = NewHistogram]
    /\ last' = CollectorLabel
    /\ UNCHANGED <<loadVars, now, recorders, resetter, observed>>

\* readCount := atomic.SwapInt64(&c.readCount, 0).
SnapshotReadCount ==
    /\ snapshotter.pc = "readCount"
    /\ snapshotter' = [SnapshotAt("writeCount") EXCEPT !.readCount = collector.readCount]
    /\ collector' = [collector EXCEPT !.readCount = 0]
    /\ last' = CollectorLabel
    /\ UNCHANGED <<loadVars, now, recorders, resetter, observed>>

\* writeCount := atomic.SwapInt64(&c.writeCount, 0).
SnapshotWriteCount ==
    /\ snapshotter.pc = "writeCount"
    /\ snapshotter' = [SnapshotAt("readErrors") EXCEPT !.writeCount = collector.writeCount]
    /\ collector' = [collector EXCEPT !.writeCount = 0]
    /\ last' = CollectorLabel
    /\ UNCHANGED <<loadVars, now, recorders, resetter, observed>>

\* readErrors := atomic.SwapInt64(&c.readErrors, 0).
SnapshotReadErrors ==
    /\ snapshotter.pc = "readErrors"
    /\ snapshotter' = [SnapshotAt("writeErrors") EXCEPT !.readErrors = collector.readErrors]
    /\ collector' = [collector EXCEPT !.readErrors = 0]
    /\ last' = CollectorLabel
    /\ UNCHANGED <<loadVars, now, recorders, resetter, observed>>

\* writeErrors := atomic.SwapInt64(&c.writeErrors, 0).
SnapshotWriteErrors ==
    /\ snapshotter.pc = "writeErrors"
    /\ snapshotter' = [SnapshotAt("totalQueries") EXCEPT !.writeErrors = collector.writeErrors]
    /\ collector' = [collector EXCEPT !.writeErrors = 0]
    /\ last' = CollectorLabel
    /\ UNCHANGED <<loadVars, now, recorders, resetter, observed>>

\* totalQueries := c.totalQueries.Load().
SnapshotTotalQueries ==
    /\ snapshotter.pc = "totalQueries"
    /\ snapshotter' = [SnapshotAt("totalErrors") EXCEPT !.totalQueries = collector.totalQueries]
    /\ last' = CollectorLabel
    /\ UNCHANGED <<loadVars, collector, now, recorders, resetter, observed>>

\* totalErrors := c.totalErrors.Load().
SnapshotTotalErrors ==
    /\ snapshotter.pc = "totalErrors"
    /\ snapshotter' = [SnapshotAt("recentErrors") EXCEPT !.totalErrors = collector.totalErrors]
    /\ last' = CollectorLabel
    /\ UNCHANGED <<loadVars, collector, now, recorders, resetter, observed>>

\* The pool stats, the copy of the ring under c.mu.RLock, and the return.
SnapshotReturn ==
    /\ snapshotter.pc = "recentErrors"
    /\ observed' = [observed EXCEPT
                       !.returned = <<MetricsSnapshot(now, snapshotter.readHist,
                                        snapshotter.writeHist, snapshotter.readCount,
                                        snapshotter.writeCount, snapshotter.readErrors,
                                        snapshotter.writeErrors, snapshotter.totalQueries,
                                        snapshotter.totalErrors, activeConnections,
                                        collector.recentErrors)>>,
                       !.windows = @ + snapshotter.readCount + snapshotter.writeCount,
                       !.fresh = FALSE,
                       !.afterReset = observed.fresh]
    /\ snapshotter' = IdleSnapshot
    /\ last' = CallLabel("snapshot", "SnapshotReturn")
    /\ UNCHANGED <<loadVars, collector, now, recorders, resetter>>

\* Reset is called: c.readLatencies.SnapshotAndReset().
ResetBegin ==
    /\ resetter = "idle"
    /\ collector' = [collector EXCEPT !.readLatencies = NewHistogram]
    /\ resetter' = "writeLatencies"
    /\ observed' = [observed EXCEPT
                       !.resets = @ + 1,
                       !.alone = (snapshotter.pc = "idle"
                                  /\ \A r \in Recorders : recorders[r].pc = "idle"),
                       !.fresh = FALSE]
    /\ last' = CollectorLabel
    /\ UNCHANGED <<loadVars, now, recorders, snapshotter>>

\* The statement of Reset at a position, and the position after it.
ResetStatement(position) ==
    CASE position = "writeLatencies" ->
             [col |-> [collector EXCEPT !.writeLatencies = NewHistogram], next |-> "readCount"]
      [] position = "readCount" ->
             [col |-> [collector EXCEPT !.readCount = 0], next |-> "writeCount"]
      [] position = "writeCount" ->
             [col |-> [collector EXCEPT !.writeCount = 0], next |-> "readErrors"]
      [] position = "readErrors" ->
             [col |-> [collector EXCEPT !.readErrors = 0], next |-> "writeErrors"]
      [] position = "writeErrors" ->
             [col |-> [collector EXCEPT !.writeErrors = 0], next |-> "totalQueries"]
      [] position = "totalQueries" ->
             [col |-> [collector EXCEPT !.totalQueries = 0], next |-> "totalErrors"]
      [] position = "totalErrors" ->
             [col |-> [collector EXCEPT !.totalErrors = 0], next |-> "startTime"]
      [] position = "startTime" ->
             [col |-> [collector EXCEPT !.startTime = now], next |-> "recentErrors"]

\* One of the stores of Reset.
ResetStore ==
    /\ resetter \notin {"idle", "recentErrors"}
    /\ collector' = ResetStatement(resetter).col
    /\ resetter' = ResetStatement(resetter).next
    /\ last' = CollectorLabel
    /\ UNCHANGED <<loadVars, now, recorders, snapshotter, observed>>

\* Mutant of ResetReturn: the ring is left as it is.
ResetReturnKeepsRing ==
    /\ resetter = "recentErrors"
    /\ resetter' = "idle"
    /\ observed' = [observed EXCEPT !.fresh = observed.alone, !.alone = FALSE,
                                    !.admitted = << >>]
    /\ last' = CallLabel("reset", "ResetReturn")
    /\ UNCHANGED <<loadVars, collector, now, recorders, snapshotter>>

\* The ring and lastErrorTime are cleared under c.mu, and Reset returns.
ResetReturn ==
    /\ resetter = "recentErrors"
    /\ collector' = [collector EXCEPT !.recentErrors = << >>, !.lastErrorTime = ZeroTime]
    /\ resetter' = "idle"
    /\ observed' = [observed EXCEPT !.fresh = observed.alone, !.alone = FALSE,
                                    !.admitted = << >>]
    /\ last' = CallLabel("reset", "ResetReturn")
    /\ UNCHANGED <<loadVars, now, recorders, snapshotter>>

\* TickStep seconds pass.
TickStep == ErrorInterval \div 2

Tick ==
    /\ now' = now + TickStep
    /\ last' = CallLabel(NoClient, "Tick")
    /\ UNCHANGED <<loadVars, collector, callVars>>

(***************************************************************************)
(* The system: the calls of the clients and the steps of the workers.      *)
(***************************************************************************)
\* The calls of client c but SetConfig, with payloads and scenario names drawn
\* from the given sets.
ClientStep(c, payloads, names, tables) ==
    \/ Start(c)
    \/ Stop(c)
    \/ StopReturn(c)
    \/ \E cfg \in payloads : UpdateConfig(c, cfg)
    \/ UpdateStop(c)
    \/ UpdateStopReturn(c)
    \/ UpdateStart(c)
    \/ \E name \in names, table \in tables : SetScenario(c, name, table)

\* The environment of a specification lets the workers report at most n
\* operations to the collector: past that, a Connect or a query returns only
\* once its token is cancelled, and Initialize does not fail.
Reports(n) == collector'.totalQueries <= n

\* The payloads on the simple scenario.
FleetPayloads ==
    {cfg \in Payloads : DiffFields(cfg, BaseConfig) \subseteq {"Connections", "ReadQPS", "ChurnRate"}}

\* Spec: two clients, the whole worker loop on scenarios of the registry with
\* empty tables, the fleet payloads.
Next ==
    \/ \E c \in Clients : ClientStep(c, FleetPayloads, {"jsonb"}, {""})
    \/ \E w \in LiveWorkers : WorkerRun(w)
    \/ \E w \in LiveWorkers : WorkerTop(w)
    \/ \E w \in LiveWorkers : ConnectOk(w)
    \/ \E w \in LiveWorkers : ConnectFail(w) /\ Reports(MaxReports)
    \/ \E w \in LiveWorkers : Backoff(w)
    \/ \E w \in LiveWorkers : InitializeOk(w, EmptyTable)
    \/ \E w \in LiveWorkers : LoopTop(w)
    \/ \E w \in LiveWorkers : WaitOk(w)
    \/ \E w \in LiveWorkers : WaitBurst(w)
    \/ \E w \in LiveWorkers : WaitExceeds(w)
    \/ \E w \in LiveWorkers : WaitCancelled(w)
    \/ \E w \in LiveWorkers : Execute(w) /\ Reports(MaxReports)
    \/ \E w \in LiveWorkers : CloseConn(w)

Spec == Init /\ [][Next]_vars

\* LiveSpec: Spec with the scheduling of the Go runtime and of the blocking
\* calls.  A goroutine that can run does run; time.Sleep and conn.Close
\* return; a call given a cancelled token returns; wg.Wait returns once the
\* counter is 0.  A worker whose token is not cancelled may stay in a
\* blocking call for ever.
ScheduledStep(w) == (w.pc = "spawned" \/ Done(w)) /\ WorkerStep(w)

Fairness ==
    /\ WF_vars(\E w \in LiveWorkers : ScheduledStep(w))
    /\ \A c \in Clients : WF_vars(StopReturn(c)) /\ WF_vars(UpdateStopReturn(c))

LiveSpec == Spec /\ Fairness

\* CtlSpec: one client, every payload, and a database that refuses every
\* connection (no Connect succeeds).
CtlNext ==
    \/ ClientStep("c1", Payloads, ScenarioInputs, TableInputs)
    \/ \E w \in LiveWorkers : WorkerRun(w)
    \/ \E w \in LiveWorkers : WorkerTop(w)
    \/ \E w \in LiveWorkers : ConnectFail(w) /\ Reports(MaxReports)
    \/ \E w \in LiveWorkers : Backoff(w)

CtlSpec == Init /\ [][CtlNext]_vars

\* RestartSpec: two clients that start and stop the fleet and call
\* UpdateConfig with another count of connections, with the history of the
\* Stop and Start calls; the database refuses every connection.
MaxRestartReports == 1

RestartPayloads == {cfg \in Payloads : DiffFields(cfg, BaseConfig) \subseteq {"Connections"}}

RestartNext ==
    \/ \E c \in Clients : Start(c)
    \/ \E c \in Clients : Stop(c)
    \/ \E c \in Clients : StopReturn(c)
    \/ \E c \in Clients, cfg \in RestartPayloads : UpdateConfig(c, cfg)
    \/ \E c \in Clients : UpdateStop(c)
    \/ \E c \in Clients : UpdateStopReturn(c)
    \/ \E c \in Clients : UpdateStart(c)
    \/ \E w \in LiveWorkers : WorkerRun(w)
    \/ \E w \in LiveWorkers : WorkerTop(w)
    \/ \E w \in LiveWorkers : ConnectFail(w) /\ Reports(MaxRestartReports)
    \/ \E w \in LiveWorkers : Backoff(w)

RestartSpec == Constructed("no") /\ [][RestartNext]_vars

\* UpdateSpec: the controller is started, then two clients call UpdateConfig
\* with another count of connections or another scenario, each call at any
\* point of the other (also between the Stop and the Start of its restart);
\* the database refuses every connection.
MaxUpdateReports == 1

UpdatePayloads ==
    {cfg \in Payloads :
        /\ DiffFields(cfg, BaseConfig) \subseteq {"Connections", "Scenario", "CustomTable"}
        /\ cfg.Connections > 0
        /\ cfg.Scenario \in {"simple", "jsonb", "custom"}}

UpdateNext ==
    \/ last.op = "NewController" /\ Start("c1")
    \/ \E c \in Clients, cfg \in UpdatePayloads :
          last.op # "NewController" /\ UpdateConfig(c, cfg)
    \/ \E c \in Clients : UpdateStop(c)
    \/ \E c \in Clients : UpdateStopReturn(c)
    \/ \E c \in Clients : UpdateStart(c)
    \/ \E w \in LiveWorkers : WorkerRun(w)
    \/ \E w \in LiveWorkers : WorkerTop(w)
    \/ \E w \in LiveWorkers : ConnectFail(w) /\ Reports(MaxUpdateReports)
    \/ \E w \in LiveWorkers : Backoff(w)

UpdateSpec == Init /\ [][UpdateNext]_vars

\* NameSpec: one client that calls SetScenario, SetConfig and UpdateConfig
\* with every name, table and payload on a controller that is not started.
NameNext ==
    \/ \E name \in ScenarioInputs, table \in TableInputs : SetScenario("c1", name, table)
    \/ \E cfg \in Payloads : SetConfig("c1", cfg)
    \/ \E cfg \in Payloads : UpdateConfig("c1", cfg)

NameSpec == Init /\ [][NameNext]_vars

\* SplitSpec: the initial SetConfig with a connection count up to MaxFleet,
\* then Start; the goroutines are not scheduled.
SplitNext ==
    \/ \E n \in 0..MaxFleet, churn \in ChurnInputs :
          ~running /\ SetConfig("c1", [BaseConfig EXCEPT !.Connections = n, !.ChurnRate = churn])
    \/ Start("c1")

SplitSpec == Init /\ [][SplitNext]_vars

\* CfgSpec: one client that starts and stops the fleet and calls SetConfig
\* with every payload, at any time; the database refuses every connection.
CfgNext ==
    \/ Start("c1")
    \/ Stop("c1")
    \/ StopReturn("c1")
    \/ \E cfg \in Payloads : SetConfig("c1", cfg)
    \/ \E w \in LiveWorkers : WorkerRun(w)
    \/ \E w \in LiveWorkers : WorkerTop(w)
    \/ \E w \in LiveWorkers : ConnectFail(w) /\ Reports(MaxReports)
    \/ \E w \in LiveWorkers : Backoff(w)

CfgSpec == Init /\ [][CfgNext]_vars

\* ZeroRateSpec: a fleet of ZeroRateFleet connections with a read rate of 0
\* and a positive write rate, set before Start or by an update of the running
\* fleet; the whole worker loop, with up to MaxZeroRateReports reports.
ZeroRateFleet == 5
MaxZeroRateReports == 1

ZeroRateConfig == [BaseConfig EXCEPT !.Connections = ZeroRateFleet, !.ReadQPS = 0]

ZeroRateNext ==
    \/ UpdateConfig("c1", ZeroRateConfig)
    \/ UpdateStop("c1")
    \/ UpdateStopReturn("c1")
    \/ UpdateStart("c1")
    \/ Start("c1")
    \/ Stop("c1")
    \/ StopReturn("c1")
    \/ \E w \in LiveWorkers : WorkerRun(w)
    \/ \E w \in LiveWorkers : WorkerTop(w)
    \/ \E w \in LiveWorkers : ConnectOk(w)
    \/ \E w \in LiveWorkers : InitializeOk(w, EmptyTable)
    \/ \E w \in LiveWorkers : LoopTop(w)
    \/ \E w \in LiveWorkers : WaitOk(w)
    \/ \E w \in LiveWorkers : WaitBurst(w)
    \/ \E w \in LiveWorkers : WaitExceeds(w)
    \/ \E w \in LiveWorkers : WaitCancelled(w)
    \/ \E w \in LiveWorkers : Execute(w) /\ Reports(MaxZeroRateReports)
    \/ \E w \in LiveWorkers : CloseConn(w)

ZeroRateSpec == Init /\ [][ZeroRateNext]_vars

\* PostSpec: two clients that post config requests, with or without the
\* scenario fields, each handled by its own HandleConfig, on a fleet of one
\* connection that the first client has started; a worker runs up to its
\* Connect, which returns once the token is cancelled.
ConfigRequests ==
    {req \in AllConfigs :
        /\ DiffFields(req, BaseConfig) \subseteq {"Scenario", "CustomTable"}
        /\ req.Scenario \in {"", "jsonb", "custom"}}

PostStep(c) ==
    \/ HandleConfigRead(c)
    \/ \E req \in ConfigRequests : HandleConfigUpdate(c, req)
    \/ UpdateStop(c)
    \/ UpdateStopReturn(c)
    \/ UpdateStart(c)

PostNext ==
    \/ Start("c1")
    \/ \E c \in Clients : PostStep(c)
    \/ \E w \in LiveWorkers : WorkerRun(w)
    \/ \E w \in LiveWorkers : WorkerTop(w)
    \/ \E w \in LiveWorkers : Done(w) /\ ConnectFail(w)

PostSpec == Init /\ [][PostNext]_vars

\* RecSpec: one client that sets the initial config of a fleet of one reader
\* and one writer and may choose the dynamic scenario, then starts and stops
\* the fleet; the whole worker loop on empty tables, with up to
\* MaxFleetReports reports to the collector.
RecNext ==
    \/ ~running /\ config.Connections = 0
          /\ SetConfig("c1", [BaseConfig EXCEPT !.Connections = 2])
    \/ ~running /\ workers = EmptyBag /\ scenario = DefaultScenario
          /\ SetScenario("c1", "custom", "")
    \/ config.Connections # 0 /\ Start("c1")
    \/ Stop("c1")
    \/ StopReturn("c1")
    \/ \E w \in LiveWorkers : WorkerRun(w)
    \/ \E w \in LiveWorkers : WorkerTop(w)
    \/ \E w \in LiveWorkers : ConnectOk(w)
    \/ \E w \in LiveWorkers : ConnectFail(w) /\ Reports(MaxFleetReports)
    \/ \E w \in LiveWorkers : Backoff(w)
    \/ \E w \in LiveWorkers : Discover(w)
    \/ \E w \in LiveWorkers : InitializeOk(w, EmptyTable)
    \/ \E w \in LiveWorkers : InitializeFail(w) /\ Reports(MaxFleetReports)
    \/ \E w \in LiveWorkers : LoopTop(w)
    \/ \E w \in LiveWorkers : WaitOk(w)
    \/ \E w \in LiveWorkers : WaitCancelled(w)
    \/ \E w \in LiveWorkers : Execute(w) /\ Reports(MaxFleetReports)
    \/ \E w \in LiveWorkers : CloseConn(w)

RecSpec == Init /\ [][RecNext]_vars

\* KeySpec: one reader on the dynamic scenario, over a table of MaxCachedIDs
\* rows or more whose primary key is of any of KeyTypes; the MAX query fails or
\* returns a key; up to MaxKeyReports reports to the collector.
MaxKeyReports == 1

KeyTables == Tables({MaxCachedIDs}, KeyTypes, {FailedMax, MaxOf(7)})

KeyNext ==
    \/ ~running /\ config.Connections = 0 /\ SetConfig("c1", BaseConfig)
    \/ ~running /\ workers = EmptyBag /\ SetScenario("c1", "custom", "")
    \/ config.Connections # 0 /\ scenario # DefaultScenario /\ Start("c1")
    \/ Stop("c1")
    \/ StopReturn("c1")
    \/ \E w \in LiveWorkers : WorkerRun(w)
    \/ \E w \in LiveWorkers : WorkerTop(w)
    \/ \E w \in LiveWorkers : ConnectOk(w)
    \/ \E w \in LiveWorkers : Discover(w)
    \/ \E w \in LiveWorkers : InitializeOk(w, KeyTables)
    \/ \E w \in LiveWorkers : LoopTop(w)
    \/ \E w \in LiveWorkers : WaitOk(w)
    \/ \E w \in LiveWorkers : WaitCancelled(w)
    \/ \E w \in LiveWorkers : Execute(w) /\ Reports(MaxKeyReports)
    \/ \E w \in LiveWorkers : CloseConn(w)

KeySpec == Init /\ [][KeyNext]_vars

\* LifeSpec: a fleet of one reader with or without churn, on
\* the simple scenario, each connection with its lifetime and the clock up to
\* MaxLifeClock seconds; up to MaxLifeReports reports to the collector.
MaxLifeClock == 65
MaxLifeReports == 1

LifeNext ==
    \/ ~running /\ config.Connections = 0
          /\ \E churn \in ChurnInputs :
                SetConfig("c1", [BaseConfig EXCEPT !.ChurnRate = churn])
    \/ config.Connections # 0 /\ Start("c1")
    \/ Stop("c1")
    \/ StopReturn("c1")
    \/ \E w \in LiveWorkers : WorkerRun(w)
    \/ \E w \in LiveWorkers : WorkerTop(w)
    \/ \E w \in LiveWorkers : ConnectOk(w)
    \/ \E w \in LiveWorkers : InitializeOk(w, EmptyTable)
    \/ \E w \in LiveWorkers, sample \in Samples : ChurnAfter(w, sample)
    \/ \E w \in LiveWorkers : LoopTopTimed(w)
    \/ \E w \in LiveWorkers : WaitOk(w)
    \/ \E w \in LiveWorkers : WaitCancelled(w)
    \/ \E w \in LiveWorkers : Execute(w) /\ Reports(MaxLifeReports)
    \/ \E w \in LiveWorkers : CloseConnTimed(w)
    \/ now < MaxLifeClock /\ Tick

LifeSpec == Init /\ [][LifeNext]_vars

\* RunSpec: the fleet of RecSpec with churn, on the dynamic scenario: a worker
\* leaves its connection by a failed Initialize, by churn, by an error of Wait
\* and by cancellation, with up to MaxRunReports reports to the collector.
MaxRunReports == 2

RunNext ==
    \/ ~running /\ config.Connections = 0
          /\ SetConfig("c1", [BaseConfig EXCEPT !.Connections = 2, !.ChurnRate = MaxChurn])
    \/ ~running /\ workers = EmptyBag /\ scenario = DefaultScenario
          /\ SetScenario("c1", "custom", "")
    \/ config.Connections # 0 /\ scenario # DefaultScenario /\ Start("c1")
    \/ Stop("c1")
    \/ StopReturn("c1")
    \/ \E w \in LiveWorkers : WorkerRun(w)
    \/ \E w \in LiveWorkers : WorkerTop(w)
    \/ \E w \in LiveWorkers : ConnectOk(w)
    \/ \E w \in LiveWorkers : ConnectFail(w) /\ Reports(MaxRunReports)
    \/ \E w \in LiveWorkers : Backoff(w)
    \/ \E w \in LiveWorkers : Discover(w)
    \/ \E w \in LiveWorkers : InitializeOk(w, EmptyTable)
    \/ \E w \in LiveWorkers : InitializeFail(w) /\ Reports(MaxRunReports)
    \/ \E w \in LiveWorkers : LoopTop(w)
    \/ \E w \in LiveWorkers : WaitOk(w)
    \/ \E w \in LiveWorkers : WaitCancelled(w)
    \/ \E w \in LiveWorkers : Execute(w) /\ Reports(MaxRunReports)
    \/ \E w \in LiveWorkers : CloseConn(w)

RunSpec == Init /\ [][RunNext]_vars

\* The environment of a specification lets no cache grow beyond n ids: past
\* that, the tables are empty.
Cached(n) == \A s \in DOMAIN scenarios' : scenarios'[s].ids <= n

\* CacheSpec: one client that sets the initial config of a fleet of one reader
\* and one writer on the simple scenario, then starts and stops it any number
\* of times; the database accepts every connection, and the users table is
\* empty or holds MaxCachedIDs rows or more when Initialize reads it.
CacheNext ==
    \/ ~running /\ config.Connections = 0
          /\ SetConfig("c1", [BaseConfig EXCEPT !.Connections = 2])
    \/ config.Connections # 0 /\ Start("c1")
    \/ Stop("c1")
    \/ StopReturn("c1")
    \/ \E w \in LiveWorkers : WorkerRun(w)
    \/ \E w \in LiveWorkers : WorkerTop(w)
    \/ \E w \in LiveWorkers : ConnectOk(w)
    \/ \E w \in LiveWorkers : InitializeOk(w, Tables(RowCounts, {"uuid"}, {NullMax}))
          /\ Cached(MaxCached)
    \/ \E w \in LiveWorkers : LoopTop(w)
    \/ \E w \in LiveWorkers : WaitOk(w)
    \/ \E w \in LiveWorkers : WaitCancelled(w)
    \/ \E w \in LiveWorkers : Execute(w) /\ Reports(MaxFleetReports)
    \/ \E w \in LiveWorkers : CloseConn(w)

CacheSpec == Init /\ [][CacheNext]_vars

\* DynSpec: one client that sets the initial config of a fleet of one reader
\* and one writer and chooses the dynamic scenario, then starts and stops the
\* fleet; the database accepts every connection and holds an empty table with
\* a uuid key, or a table with an integer key whose MAX query fails, returns
\* NULL or returns a key; up to MaxFleetReports reports to the collector.
MaxResults == {FailedMax, NullMax, MaxOf(0), MaxOf(7)}

DynTables == Tables({0}, {"uuid"}, {NullMax}) \cup Tables({0}, {"integer"}, MaxResults)

DynNext ==
    \/ ~running /\ config.Connections = 0
          /\ SetConfig("c1", [BaseConfig EXCEPT !.Connections = 2])
    \/ ~running /\ workers = EmptyBag /\ scenario = DefaultScenario
          /\ SetScenario("c1", "custom", "")
    \/ config.Connections # 0 /\ scenario # DefaultScenario /\ Start("c1")
    \/ Stop("c1")
    \/ StopReturn("c1")
    \/ \E w \in LiveWorkers : WorkerRun(w)
    \/ \E w \in LiveWorkers : WorkerTop(w)
    \/ \E w \in LiveWorkers : ConnectOk(w)
    \/ \E w \in LiveWorkers : Backoff(w)
    \/ \E w \in LiveWorkers : Discover(w)
    \/ \E w \in LiveWorkers : InitializeOk(w, DynTables)
    \/ \E w \in LiveWorkers : InitializeFail(w) /\ Reports(MaxFleetReports)
    \/ \E w \in LiveWorkers : LoopTop(w)
    \/ \E w \in LiveWorkers : WaitOk(w)
    \/ \E w \in LiveWorkers : WaitCancelled(w)
    \/ \E w \in LiveWorkers : Execute(w) /\ Reports(MaxFleetReports)
    \/ \E w \in LiveWorkers : CloseConn(w)

DynSpec == Init /\ [][DynNext]_vars

\* The calls of RecordRead ("read") or RecordWrite ("write") by the recorders
\* of a set, with the outcomes of a set, statement by statement; at most
\* maxCalls calls.
RecorderStep(callers, ops, outcomes, maxCalls) ==
    \/ \E r \in callers, op \in ops, latency \in Latencies, err \in outcomes :
          observed.calls < maxCalls /\ RecordBegin(r, op, latency, err)
    \/ \E r \in callers : RecordCount(r)
    \/ \E r \in callers : RecordTotal(r)
    \/ \E r \in callers : RecordErrors(r)
    \/ \E r \in callers : RecordTotalErrors(r)
    \/ \E r \in callers : RecordAddError(r)

\* The calls of Snapshot by the broadcast loop, one after the other.
SnapshotStep ==
    \/ observed.snapshots < MaxSnapshots /\ SnapshotBegin
    \/ SnapshotWriteLatencies
    \/ SnapshotReadCount
    \/ SnapshotWriteCount
    \/ SnapshotReadErrors
    \/ SnapshotWriteErrors
    \/ SnapshotTotalQueries
    \/ SnapshotTotalErrors
    \/ SnapshotReturn

\* ZeroSpec: one client that starts, stops and reconfigures a fleet of no
\* connection, and the broadcast loop that takes snapshots.
ZeroPayloads == {cfg \in AllConfigs : cfg.Connections = 0 /\ cfg.Scenario = "simple"}

ZeroNext ==
    \/ Start("c1")
    \/ Stop("c1")
    \/ StopReturn("c1")
    \/ \E cfg \in ZeroPayloads : UpdateConfig("c1", cfg)
    \/ UpdateStop("c1")
    \/ UpdateStopReturn("c1")
    \/ UpdateStart("c1")
    \/ SnapshotStep

ZeroSpec == Init /\ [][ZeroNext]_vars

\* The calls of Reset by HandleReset.
ResetStep ==
    \/ observed.resets < MaxResets /\ ResetBegin
    \/ ResetStore
    \/ ResetReturn

\* SnapSpec: a recorder of reads, a recorder of writes and the broadcast loop
\* on one collector, no Reset.
SnapNext ==
    \/ RecorderStep({"r1"}, {"read"}, QueryOutcomes, MaxCalls)
    \/ RecorderStep({"r2"}, {"write"}, QueryOutcomes, MaxCalls)
    \/ SnapshotStep

SnapSpec == Init /\ [][SnapNext]_vars

\* ResetSpec: one recorder of failed operations, the broadcast loop and
\* HandleReset.
ResetNext ==
    \/ RecorderStep({"r1"}, {"read", "write"}, QueryOutcomes \ {""}, MaxCalls)
    \/ SnapshotStep
    \/ ResetStep

ResetSpec == Init /\ [][ResetNext]_vars

\* The number of ticks of the clock so far.
Ticks == now \div TickStep

\* RingSpec: one recorder of failed writes and the clock, until the clock
\* shows MaxClock seconds.  One call begins between two ticks of the clock; it
\* may reach addError before or after the next tick.
RingNext ==
    \/ RecorderStep({"r1"}, {"write"}, QueryOutcomes \ {""}, MaxRingCalls)
          /\ observed'.calls <= Ticks + 1
    \/ now < MaxClock /\ observed.calls > Ticks /\ Tick

RingSpec == Init /\ [][RingNext]_vars

\* RateSpec: one recorder of failed reads and writes, the clock and
\* HandleReset; up to MaxRateCalls calls, until the clock shows MaxRateClock
\* seconds.
RateNext ==
    \/ RecorderStep({"r1"}, {"read", "write"}, QueryOutcomes \ {""}, MaxRateCalls)
    \/ now < MaxRateClock /\ Tick
    \/ ResetStep

RateSpec == Init /\ [][RateNext]_vars

(***************************************************************************)
(* The properties.                                                         *)
(***************************************************************************)
NoWorkerLive == workers = EmptyBag /\ wg = 0

InStopWait(c) == pc[c] \in {"Stop.wait", "Update.wait"}

StopReturned == last.op \in {"StopReturn", "UpdateStopReturn"}

\* C1: Stop on a running controller returns only after every worker of the
\* fleet has returned, and running becomes false only in that return; whenever
\* running is false, no worker is live.
C1_StopIsBarrier ==
    /\ [](~running => NoWorkerLive)
    /\ [][/\ (running /\ ~running') => (StopReturned' /\ NoWorkerLive /\ NoWorkerLive')
          /\ \A c \in Clients : (InStopWait(c) /\ ~InStopWait(c)') => (NoWorkerLive /\ ~running')]_vars

\* C1 witness: a Stop that has cancelled the token is blocked while a worker
\* of the fleet still holds its connection.
C1_Witness ==
    \E c \in Clients :
        /\ pc[c] = "Stop.wait"
        /\ running /\ ctx \in cancelled
        /\ \E w \in LiveWorkers : HoldsConn(w) /\ Done(w)

\* C2: under LiveSpec, a Stop that waits for the workers returns.
C2_StopReturns == \A c \in Clients : InStopWait(c) ~> ~InStopWait(c)

\* C2 witness: Stop waits while a reader is blocked on the read limiter, whose
\* limit is 0, and a writer is in a query.
C2_Witness ==
    \E c \in Clients :
        /\ pc[c] = "Stop.wait"
        /\ readLimiter.limit = 0
        /\ \E w \in LiveWorkers : w.kind = "reader" /\ w.pc = "waiting"
        /\ \E w \in LiveWorkers : w.kind = "writer" /\ w.pc = "executing"

ShapeFields == {"Connections", "ChurnRate", "Scenario", "CustomTable"}

UpdateLocked == last.op = "UpdateConfig"

\* C3: UpdateConfig goes on to Stop and Start exactly when the controller was
\* running under the lock and the payload changes a shape field; a call on a
\* controller that is not running returns with the fleet as it was.
C3_RestartIff ==
    [][UpdateLocked' =>
          \A c \in Clients : last'.by = c =>
              /\ pc'[c] = (IF running /\ DiffFields(config, config') \cap ShapeFields # {}
                           THEN "Update.stop" ELSE "idle")
              /\ ~running => (pc'[c] = "idle" /\ ~running' /\ workers' = workers /\ wg' = wg)]_vars

\* C3 witness: an UpdateConfig on a running controller that changed the custom
\* table alone, and is about to stop the fleet.
C3_Witness ==
    /\ UpdateLocked /\ last.wasRunning
    /\ last.diff = {"CustomTable"}
    /\ \E c \in Clients : pc[c] = "Update.stop"

RateFields == {"ReadQPS", "WriteQPS"}

Tuned(lim, qps) == lim.limit = qps /\ lim.burst = (IF qps > 1 THEN qps ELSE 1)

C5_RepeatedUpdate ==
    [][(UpdateLocked' /\ last'.repeat) =>
          UNCHANGED <<config, readLimiter, writeLimiter, scenario, running, ctx, cancelled,
                      workers, wg, pc, mu>>]_vars

\* C5 witness: the repeated call has run on a running controller with a live
\* fleet of MaxConn connections.
C5_Witness ==
    /\ UpdateLocked /\ last.repeat
    /\ running /\ wg > 0
    /\ config.Connections = MaxConn

StartCalled == last.op \in {"Start", "UpdateStart"}

\* C6: a Start on a running controller spawns no worker, keeps the token and
\* leaves running true.
C6_StartWhileRunning ==
    [][(StartCalled' /\ running) =>
          /\ running'
          /\ UNCHANGED <<workers, wg, ctx, cancelled, config, readLimiter, writeLimiter,
                         scenario, mu, activeConnections>>]_vars

\* C6 witness: Start has been called on a running controller with a live fleet.
C6_Witness ==
    /\ last.op = "Start" /\ last.wasRunning
    /\ running /\ wg > 0

StopCalled == last.op \in {"Stop", "UpdateStop"}

\* C7: a Stop on a controller that is not running cancels nothing, waits for
\* nothing and changes nothing.
C7_StopWhileStopped ==
    [][(StopCalled' /\ ~running) =>
          /\ ~running'
          /\ \A c \in Clients : ~InStopWait(c)'
          /\ last'.op = "Stop" => pc' = pc
          /\ UNCHANGED <<cancelled, ctx, mu, config, scenario, readLimiter, writeLimiter,
                         workers, wg, activeConnections>>]_vars

\* C7 witness: Stop has been called after an earlier Stop returned.
C7_Witness ==
    /\ last.op = "Stop" /\ ~last.wasRunning
    /\ ~running /\ ctx \in cancelled
    /\ \A c \in Clients : pc[c] = "idle"

\* The live workers of a kind.
CountOf(kind) ==
    BagCardinality([w \in {x \in LiveWorkers : x.kind = kind} |-> workers[w]])

\* C8: Start spawns floor(0.8 c) readers, 1 when that is 0 and c > 0, and
\* c - readers writers; the two add up to c and neither is negative.
C8_Split ==
    running =>
        LET c == config.Connections
            floor == (4 * c) \div 5
            readers == CountOf("reader")
            writers == CountOf("writer")
        IN  /\ readers = (IF c > 0 /\ floor = 0 THEN 1 ELSE floor)
            /\ writers = c - readers
            /\ readers + writers = c
            /\ readers >= 0 /\ writers >= 0
            /\ wg = c

\* C8 witness: a fleet of one connection is one reader and no writer.
C8_Witness ==
    /\ running /\ config.Connections = 1
    /\ CountOf("reader") = 1 /\ CountOf("writer") = 0

WorkerScenarios == {w.scenario : w \in LiveWorkers}

\* C9: the workers of a fleet hold the scenario the controller held when
\* Start spawned them; SetScenario changes the controller's reference and no
\* worker, so a live worker never comes to hold another scenario.
C9_ScenarioCaptured ==
    [][/\ last'.op = "SetScenario" => workers' = workers
       /\ (StartCalled' /\ ~running) => WorkerScenarios' \subseteq {scenario'}
       /\ ~(StartCalled' /\ ~running) => WorkerScenarios' \subseteq WorkerScenarios]_vars

\* C9 witness: after a SetScenario on a running controller a worker executes
\* an operation of the scenario it was started with, not of the controller's.
C9_Witness ==
    /\ running
    /\ \E w \in LiveWorkers : w.pc = "executing" /\ w.scenario # scenario

\* The scenario C10 expects for a payload.
SwappedOrSimple(s, cfg) ==
    IF cfg.Scenario = "custom"
    THEN s.name = "custom" /\ s.table = cfg.CustomTable
    ELSE s = (IF cfg.Scenario \in Registry THEN Builtin(cfg.Scenario) ELSE Builtin("simple"))

\* C10: an UpdateConfig that changes the scenario name or the custom table
\* installs a custom scenario for the name "custom", else the built-in of the
\* name, and the simple scenario when the registry has no such name.  (Stated
\* for the payloads that name a scenario; the empty name is left aside.)
C10_SwapOrSimple ==
    [][(UpdateLocked' /\ ScenarioChanged(config, config') /\ config'.Scenario # "") =>
          SwappedOrSimple(scenario', config')]_vars

SetConfigCalled == last.op = "SetConfig"

\* C11: SetConfig installs the payload as the config and tunes the two
\* limiters to its rates; it spawns and stops no worker, cancels no token and
\* leaves running and the scenario reference as they were, on a running
\* controller as on a stopped one.
C11_SetConfigNoReconcile ==
    [][SetConfigCalled' =>
          /\ last'.diff = DiffFields(config, config')
          /\ Tuned(readLimiter', config'.ReadQPS)
          /\ Tuned(writeLimiter', config'.WriteQPS)
          /\ UNCHANGED <<running, scenario, workers, wg, ctx, cancelled, mu, pc,
                         activeConnections>>]_vars

\* C11 witness: SetConfig has changed the scenario name on a running controller
\* with a live fleet, and the scenario reference is still the simple scenario.
C11_Witness ==
    /\ SetConfigCalled /\ last.wasRunning
    /\ last.diff = {"Scenario"}
    /\ running /\ wg > 0
    /\ config.Scenario = "jsonb" /\ scenario = Builtin("simple")

\* The connections that workers got from Connect and have not released.
HeldConnections ==
    BagCardinality([w \in {x \in LiveWorkers : HoldsConn(x)} |-> workers[w]])

\* C12: the manager's counter is the number of connections that workers got
\* from a successful Connect and have not released; it is not negative and
\* not above the number of workers of the fleet.
C12_ActiveConnections ==
    /\ activeConnections = HeldConnections
    /\ activeConnections >= 0
    /\ activeConnections <= BagCardinality(workers)
    /\ BagCardinality(workers) = wg
    /\ ~running => activeConnections = 0

\* C12 witness: both workers of a fleet of two hold a connection; the token is
\* cancelled, one worker is about to release and the other is in a query.
C12_Witness ==
    /\ activeConnections = 2 /\ wg = 2
    /\ \E w \in LiveWorkers : w.pc = "closing" /\ Done(w)
    /\ \E w \in LiveWorkers : w.pc = "executing"

\* C13: a worker has at most one connection open and at most one scenario
\* operation in flight; an operation is in flight only on the worker's
\* connection and only while the worker is in executeRead / executeWrite, and
\* a worker that waits on its limiter has no operation in flight.
C13_OneInFlight ==
    \A w \in LiveWorkers :
        /\ w.conns \in {0, 1}
        /\ w.inflight \in {0, 1}
        /\ w.conns = 1 <=> HoldsConn(w)
        /\ w.inflight = 1 <=> w.pc = "executing"
        /\ w.inflight = 1 => w.conns = 1

\* C13 witness: the reader has an operation in flight on its connection after
\* two earlier reads have returned and been recorded.
C13_Witness ==
    /\ collector.readCount = 2 /\ collector.readLatencies.count = 2
    /\ \E w \in LiveWorkers : w.kind = "reader" /\ w.pc = "executing" /\ w.inflight = 1

\* The collector has taken one report of an operation of the kind, with the
\* latency and the error ("" is nil).
Reported(kind, latency, err) ==
    LET reads == IF kind = "reader" THEN 1 ELSE 0
        writes == 1 - reads
        failed == IF err # "" THEN 1 ELSE 0
    IN  /\ collector'.totalQueries = collector.totalQueries + 1
        /\ collector'.readCount = collector.readCount + reads
        /\ collector'.writeCount = collector.writeCount + writes
        /\ collector'.readLatencies.count = collector.readLatencies.count + reads
        /\ collector'.readLatencies.sum = collector.readLatencies.sum + reads * latency
        /\ collector'.writeLatencies.count = collector.writeLatencies.count + writes
        /\ collector'.writeLatencies.sum = collector.writeLatencies.sum + writes * latency
        /\ collector'.totalErrors = collector.totalErrors + failed
        /\ collector'.readErrors = collector.readErrors + reads * failed
        /\ collector'.writeErrors = collector.writeErrors + writes * failed

\* C14: a worker that sees an error of Connect or of a scenario operation
\* while its token is cancelled reports nothing; every other outcome, a
\* failure of Connect or of Initialize (with latency 0) or the return of an
\* operation (with its measured latency), is reported to the collector once.
C14_CancelledErrorsNotReported ==
    [][/\ last'.op \in {"ConnectFail", "Execute"} =>
             /\ last'.op = "ConnectFail" => last'.latency = 0 /\ last'.err # ""
             /\ last'.op = "Execute" => last'.latency \in Latencies
             /\ IF last'.err # "" /\ last'.done
                THEN collector' = collector
                ELSE Reported(last'.kind, last'.latency, last'.err)
       /\ last'.op = "InitializeFail" => Reported(last'.kind, 0, last'.err)]_vars

\* C14 witness: a writer's operation has failed under a cancelled token and
\* is not reported, after an operation that was.
C14_Witness ==
    /\ last.op = "Execute" /\ last.kind = "writer"
    /\ last.err # "" /\ last.done
    /\ collector.totalQueries = 1 /\ collector.totalErrors = 0

\* C15: with no Reset, the total of queries that a snapshot reports is the sum
\* of the read and write window counts of that snapshot and of all the
\* snapshots before it, also when a record runs while the snapshot is taken.
C15_TotalsMatchWindows ==
    observed.returned # << >> =>
        observed.returned[1].Totals.Queries = observed.windows

\* C16: the first snapshot taken after a Reset, with no Record call from the
\* beginning of the Reset to the return of the snapshot, reports no query and
\* no error in the totals, zero read and write window counts and error
\* counts, and an empty list of recent errors.
C16_ResetThenSnapshot ==
    observed.afterReset =>
        LET s == observed.returned[1]
        IN  /\ s.Totals.Queries = 0 /\ s.Totals.Errors = 0
            /\ s.Reads.Count = 0 /\ s.Writes.Count = 0
            /\ s.Reads.Errors = 0 /\ s.Writes.Errors = 0
            /\ s.Reads.Latency = NewHistogram /\ s.Writes.Latency = NewHistogram
            /\ s.RecentErrors = << >>

\* C16 witness: MaxCalls failed operations have been recorded, then Reset has
\* run, then the snapshot.
C16_Witness ==
    /\ observed.afterReset
    /\ observed.calls = MaxCalls /\ observed.resets = 1
    /\ last.op = "SnapshotReturn"


\* C17: the recent-errors ring never holds more than MaxRecentErrors entries,
\* and it is the last MaxRecentErrors of the errors admitted so far, in the
\* order of their admission: an admission to a full ring drops the oldest.
C17_RingBounded ==
    /\ Len(collector.recentErrors) <= MaxRecentErrors
    /\ collector.recentErrors = LastN(observed.admitted, MaxRecentErrors)

\* More errors than the ring holds have been admitted: the ring is full and
\* its oldest entry is the second admitted error or a later one.
C17_Witness ==
    /\ Len(observed.admitted) > MaxRecentErrors
    /\ Len(collector.recentErrors) = MaxRecentErrors
    /\ collector.recentErrors[1].Timestamp > observed.admitted[1].Timestamp
    /\ collector.recentErrors[MaxRecentErrors] = observed.admitted[Len(observed.admitted)]

\* Any two entries of a ring are at least ErrorInterval seconds apart.
Apart(ring) ==
    \A i, j \in 1..Len(ring) :
        i < j => ring[j].Timestamp - ring[i].Timestamp >= ErrorInterval

\* No call is in progress and Reset was never called.
QuietSinceConstruction ==
    /\ observed.resets = 0
    /\ \A r \in Recorders : recorders[r].pc = "idle"

C19_CacheBounded ==
    \A s \in DOMAIN scenarios : scenarios[s].ids <= MaxCachedIDs

\* C20: an Initialize call that returns nil on a CustomScenario that was
\* initialized before leaves the object as it is; no worker is in a discovery
\* (the part of Initialize that queries the database) of an initialized
\* object, two workers are never in a discovery of the same object, and no
\* object sees more than one discovery complete.
C20_InitializeOnce ==
    [][/\ last'.op = "InitializeOk" =>
            \A s \in DOMAIN scenarios :
                scenarios[s].initialized =>
                    s \in DOMAIN scenarios' /\ scenarios'[s] = scenarios[s]
       /\ \A s \in DOMAIN scenarios' : scenarios'[s].discoveries <= 1
       /\ \A w \in BagToSet(workers') :
            w.pc = "discovering" =>
                /\ w.scenario \in DOMAIN scenarios'
                /\ ~scenarios'[w.scenario].initialized
                /\ \A x \in BagToSet(workers') :
                      x.pc = "discovering" /\ x.scenario = w.scenario => x = w
                /\ workers'[w] = 1]_vars

\* The reader and the writer of a fleet have both returned from Initialize on
\* the same CustomScenario, the last of them just now, and one discovery has
\* completed.
C20_Witness ==
    /\ last.op = "InitializeOk"
    /\ \E s \in DOMAIN scenarios :
          /\ s.name = "custom"
          /\ scenarios[s].initialized
          /\ scenarios[s].discoveries = 1
          /\ \E r, w \in LiveWorkers :
                /\ r.kind = "reader" /\ w.kind = "writer"
                /\ r.scenario = s /\ w.scenario = s
                /\ r.initialized /\ w.initialized
                /\ r.ctx = w.ctx


\* The CustomScenario objects that have taken the id cache as their id source.
CacheStrategy ==
    {s \in DOMAIN scenarios :
        /\ s.name = "custom"
        /\ scenarios[s].initialized
        /\ scenarios[s].primaryKeyType \notin IntegerFamily}

\* C21: on a dynamic scenario with the id cache as its id source, a read
\* called while the cache is empty issues no query, a successful write adds
\* its id to the cache (up to MaxCachedIDs), and a read called while the cache
\* holds an id takes its id from the cache.
C21_EmptyTableCache ==
    [][/\ \A w \in LiveWorkers :
            w.pc = "executing" /\ w.kind = "reader" /\ w.scenario \in CacheStrategy =>
                ReadSource(scenarios[w.scenario]) =
                    (IF scenarios[w.scenario].ids = 0 THEN "none" ELSE "cache")
       /\ last'.op = "Execute" /\ last'.kind = "writer" /\ last'.err = "" =>
            \A s \in CacheStrategy :
                /\ s \in DOMAIN scenarios'
                /\ scenarios'[s].ids =
                      (IF scenarios[s].ids < MaxCachedIDs THEN scenarios[s].ids + 1
                       ELSE scenarios[s].ids)]_vars


\* C30: once a dynamic scenario is initialized with a key of the integer
\* family, s.maxID is the greatest key of the table when the MAX query returned
\* one that is 1 or more, and 1 when it returned a smaller one, when it
\* returned NULL (the table is empty) and when it failed; s.maxID is 1 at least.
C30_MaxIDBound ==
    \A s \in DOMAIN scenarios :
        (/\ s.name = "custom"
         /\ scenarios[s].initialized
         /\ scenarios[s].primaryKeyType \in IntegerFamily) =>
            LET o == scenarios[s]
                greatest == IF ~o.max.err /\ o.max.val # << >> THEN o.max.val[1] ELSE 1
            IN  /\ o.maxID >= 1
                /\ o.maxID = (IF greatest < 1 THEN 1 ELSE greatest)


\* C22: with no connection in the config, Start sets running and spawns no
\* worker, the collector counts no read and no write, and every snapshot
\* returns a window of no read and no write.
C22_NoConnections ==
    config.Connections = 0 =>
        /\ last.op \in {"Start", "UpdateStart"} => running
        /\ workers = EmptyBag /\ wg = 0
        /\ collector.readCount = 0 /\ collector.writeCount = 0
        /\ collector.totalQueries = 0
        /\ observed.returned # << >> =>
              /\ observed.returned[1].Reads.Count = 0
              /\ observed.returned[1].Writes.Count = 0

\* The fleet of no connection is running, after a Start that set running, and
\* a snapshot has returned.
C22_Witness ==
    /\ config.Connections = 0
    /\ running /\ last.op = "SnapshotReturn"
    /\ observed.returned # << >>
    /\ workers = EmptyBag


\* C24: the churn rate Start hands to its workers is the declared churn rate
\* divided by the connections when both are positive, and 0 when either is 0;
\* with no connection Start computes the rate 0 and divides by nothing.
C24_ChurnPerConnection ==
    last.op = "Start" /\ ~last.wasRunning =>
        LET rate == last.churnRate
        IN  /\ rate.den # 0
            /\ \A w \in LiveWorkers : w.churnRate = rate
            /\ IF config.Connections > 0 /\ config.ChurnRate > 0
               THEN rate.num * config.Connections = config.ChurnRate * rate.den
               ELSE rate.num = 0

\* Start has run on a config with a positive churn rate and several connections:
\* each worker holds the rate divided by the connections.
C24_Witness ==
    /\ last.op = "Start" /\ ~last.wasRunning
    /\ config.ChurnRate > 0
    /\ config.Connections > 1
    /\ \A w \in LiveWorkers : w.churnRate.num > 0 /\ w.churnRate.den = config.Connections


\* C27: a failure of Initialize follows the policy of a failure of Connect:
\* under a cancelled token the worker records nothing and returns, otherwise
\* it records one error of latency 0 on its own channel and stays; in both
\* cases the connection has been closed and released.
C27_InitializeFailurePolicy ==
    [][last'.op = "InitializeFail" =>
          /\ activeConnections' = activeConnections - 1
          /\ IF last'.done
             THEN /\ collector' = collector
                  /\ BagCardinality(workers') = BagCardinality(workers) - 1
             ELSE /\ collector'.totalQueries = collector.totalQueries + 1
                  /\ collector'.totalErrors = collector.totalErrors + 1
                  /\ BagCardinality(workers') = BagCardinality(workers)]_vars


\* C29: a failed Initialize of the CustomScenario leaves the object not
\* initialized and its lock free, so that the next Initialize discovers again;
\* a worker is past the initialization (in runWithConnection, or closing after
\* it) only on an initialized object, so it has retried until a success.
PastInitialize == {"loop", "waiting", "executing", "closing"}

C29_RetryInitialize ==
    [][/\ last'.op = "InitializeFail" =>
            /\ \E s \in DOMAIN scenarios :
                  /\ scenarios[s].locked
                  /\ ~Object(s)'.locked
                  /\ ~Object(s)'.initialized
                  /\ Object(s)'.discoveries = scenarios[s].discoveries
            /\ \A s \in DOMAIN scenarios' :
                  scenarios'[s].initialized =>
                      s \in DOMAIN scenarios /\ scenarios[s].initialized
       /\ \A w \in BagToSet(workers') :
            /\ w.pc \in PastInitialize /\ w.scenario.name = "custom" =>
                  w.initialized /\ Object(w.scenario)'.initialized
            /\ w.pc = "connecting" /\ w.scenario.name = "custom"
                  /\ ~Object(w.scenario)'.initialized => ~w.initialized]_vars

\* An Initialize has failed (its error is in the ring), and a later Initialize
\* on a new connection has completed the discovery.
C29_Witness ==
    /\ last.op = "InitializeOk"
    /\ \E i \in DOMAIN collector.recentErrors :
          collector.recentErrors[i].Message.err = "initialize failed"
    /\ \E w \in LiveWorkers :
          /\ w.pc = "loop" /\ w.scenario.name = "custom"
          /\ Object(w.scenario).initialized
          /\ Object(w.scenario).discoveries = 1


\* C25: Run returns only under a cancelled token, at the select of the loop or
\* after a failed Connect: a failure of Connect, Initialize or a query and a
\* churn keep the worker, which tries again.  Hence between a Start and the
\* next Stop the fleet keeps the workers Start has spawned.
RunReturns == BagCardinality(workers') < BagCardinality(workers)

C25_WorkersStay ==
    [][/\ RunReturns =>
            \E w \in BagToSet(workers) :
                /\ Done(w)
                /\ w.pc \in {"top", "connecting"}
                /\ workers' = workers (-) SetToBag({w})
       /\ last'.op \in {"ConnectFail", "InitializeFail", "Execute"} /\ ~last'.done =>
            ~RunReturns
       /\ running /\ ctx \notin cancelled =>
            BagCardinality(workers) = NumReaders(config.Connections) + NumWriters(config.Connections)
       /\ running /\ running' /\ ctx' = ctx /\ ctx \notin cancelled' =>
            BagCardinality(workers') = BagCardinality(workers)]_vars

\* A Connect of a worker of the running fleet has just failed, after other
\* failures, and the worker is in its backoff while the fleet is whole.
C25_Witness ==
    /\ running /\ ctx \notin cancelled
    /\ last.op = "ConnectFail" /\ ~last.done
    /\ collector.totalErrors >= 2
    /\ \E w \in LiveWorkers : w.pc = "backoff"
    /\ BagCardinality(workers) = config.Connections
    /\ config.Connections = 2
    /\ config.ChurnRate > 0


\* C28: a worker closes and releases the connection it got from Connect once,
\* whichever way it leaves the connection (failed Initialize, churn, error of
\* the limiter's Wait, cancellation): it holds a connection exactly between a
\* Connect and the Close, the manager's counter goes down by one with each
\* Close, a worker returns without a connection, and the counter is 0 when
\* Stop returns.
C28_ReleasedOnce ==
    [][/\ \A w \in BagToSet(workers') : w.conns = (IF HoldsConn(w) THEN 1 ELSE 0)
       /\ HeldConnections' < HeldConnections =>
            /\ HeldConnections' = HeldConnections - 1
            /\ activeConnections' = activeConnections - 1
       /\ HeldConnections' >= HeldConnections =>
            activeConnections' - activeConnections = HeldConnections' - HeldConnections
       /\ RunReturns =>
            \E w \in BagToSet(workers) :
                workers' = workers (-) SetToBag({w}) /\ w.conns = 0 /\ ~HoldsConn(w)
       /\ last'.op \in {"StopReturn", "UpdateStopReturn"} =>
            activeConnections' = 0 /\ workers' = EmptyBag]_vars

\* Stop has returned on a fleet with churn whose workers have held connections,
\* reported operations and failed an Initialize.
C28_Witness ==
    /\ last.op = "StopReturn" /\ last.wasRunning
    /\ activeConnections = 0
    /\ config.ChurnRate > 0
    /\ collector.totalQueries >= 2
    /\ \E i \in DOMAIN collector.recentErrors :
          collector.recentErrors[i].Message.err = "initialize failed"


\* C26: a config request without scenario and custom_table leaves the
\* scenario name and the custom table of the config as they are, swaps no
\* scenario and, when it changes neither the connections nor the churn rate,
\* restarts no worker.
C26_MissingFieldsKeepCurrent ==
    [][last'.op = "HandleConfig" /\ last'.req.Scenario = "" /\ last'.req.CustomTable = "" =>
          /\ config'.Scenario = config.Scenario
          /\ config'.CustomTable = config.CustomTable
          /\ scenario' = scenario
          /\ config'.Connections = config.Connections /\ config'.ChurnRate = config.ChurnRate =>
                pc'[last'.by] = "idle"]_vars


\* C23: with a read rate of 0, a positive write rate and ZeroRateFleet
\* connections the fleet has a writer, and no reader gets past the read
\* limiter: none executes a read and none is recorded, so that the read count
\* of every snapshot window is 0.
C23_ReadersBlocked ==
    config = ZeroRateConfig =>
        /\ collector.readCount = 0
        /\ collector.readLatencies.count = 0
        /\ \A w \in LiveWorkers : w.kind = "reader" => w.pc # "executing"
        /\ running /\ ctx \notin cancelled => \E w \in LiveWorkers : w.kind = "writer"


\* C31: the id source of a dynamic scenario is fixed by the type of the
\* primary key that its initialization has found: the integer range (no id is
\* cached) for the types of the integer family, the id cache (seeded with the
\* keys of the table) for every other type.
C31_StrategyByKeyType ==
    \A s \in DOMAIN scenarios :
        s.name = "custom" /\ scenarios[s].initialized =>
            IF scenarios[s].primaryKeyType \in IntegerFamily
            THEN ReadSource(scenarios[s]) = "range"
            ELSE ReadSource(scenarios[s]) = "cache"


\* The scenario objects in use whose id source is the id cache: those of the
\* registry, and the initialized CustomScenario objects whose key is not of
\* the integer family.
CacheBacked ==
    {s \in {w.scenario : w \in LiveWorkers} :
        \/ s.name # "custom"
        \/ Object(s).initialized /\ Object(s).primaryKeyType \notin IntegerFamily}

\* The step is the return of ExecuteWrite on the scenario object s.
WriteReturns(s) ==
    /\ last'.op = "Execute" /\ last'.kind = "writer"
    /\ \E w \in LiveWorkers : w.pc = "executing" /\ w.kind = "writer" /\ w.scenario = s

\* C32: a successful write adds its id to the cache while the cache holds
\* fewer than MaxCachedIDs ids and leaves the length as it is beyond (it
\* replaces an id); a failed write leaves the cache as it is; the length of
\* the cache never decreases.
C32_WriteCachesID ==
    [][\A s \in CacheBacked :
          /\ Object(s)'.ids >= Object(s).ids
          /\ WriteReturns(s) =>
                Object(s)'.ids =
                    (IF last'.err = "" /\ Object(s).ids < MaxCachedIDs
                     THEN Object(s).ids + 1
                     ELSE Object(s).ids)]_vars


\* C33: the lifetime a worker draws for a connection under a churn rate above
\* 0 is within [MinLifetime, MaxLifetime] and the deadline is that far from
\* the time of the draw or nearer to now; under the rate 0 there is no
\* deadline.  A worker leaves the select of runWithConnection for the Close
\* only under a cancelled token or, with a rate above 0, after its deadline;
\* the other way to the Close is a Wait that returns an error.
C33_ChurnLifetime ==
    [][/\ \A w \in BagToSet(workers') :
            HasDeadline(w) =>
                IF w.churnRate.num > 0
                THEN /\ MinLifetime <= w.lifetime /\ w.lifetime <= MaxLifetime
                     /\ ~w.churnAfter.zero
                     /\ w.churnAfter.t <= now' * 1000 + w.lifetime
                ELSE w.churnAfter = ZeroTime
       /\ \A w \in BagToSet(workers) :
            w.pc = "loop" /\ Becomes(w, At(w, "closing")) =>
                \/ Done(w)
                \/ w.churnRate.num > 0 /\ now * 1000 > w.churnAfter.t
       /\ \A w \in BagToSet(workers) :
            w.pc \in {"loop", "waiting", "executing"} /\ w.churnRate.num = 0 /\ ~Done(w) =>
                \A x \in BagToSet(workers') :
                    x.pc = "closing" => x \in BagToSet(workers)]_vars

\* A connection has been given up at its deadline under a live token, with a
\* lifetime clamped from above.
C33_Witness ==
    \E w \in LiveWorkers :
        /\ HasDeadline(w) /\ w.pc = "closing" /\ ~Done(w)
        /\ w.churnRate.num > 0 /\ w.lifetime = MaxLifetime


\* C39: a failed Connect or a failed Initialize that a worker records (a
\* failed Connect under a cancelled token is not recorded) adds one to the
\* window operation count of the worker's class and to the total of queries,
\* and one to the error count of the class and to the total of errors; the
\* counters of the other class stay.
FailureRecorded ==
    \/ last'.op = "InitializeFail"
    \/ last'.op = "ConnectFail" /\ ~last'.done

C39_FailureCountsAsOperation ==
    [][FailureRecorded =>
          /\ collector'.totalQueries = collector.totalQueries + 1
          /\ collector'.totalErrors = collector.totalErrors + 1
          /\ IF last'.kind = "reader"
             THEN /\ collector'.readCount = collector.readCount + 1
                  /\ collector'.readErrors = collector.readErrors + 1
                  /\ collector'.writeCount = collector.writeCount
                  /\ collector'.writeErrors = collector.writeErrors
             ELSE /\ collector'.writeCount = collector.writeCount + 1
                  /\ collector'.writeErrors = collector.writeErrors + 1
                  /\ collector'.readCount = collector.readCount
                  /\ collector'.readErrors = collector.readErrors]_vars

\* A writer has recorded a failed Initialize after a reader's failed Connect:
\* two operations and two errors, one of each class.
C39_Witness ==
    /\ last.op = "InitializeFail" /\ last.kind = "writer"
    /\ collector.readCount = 1 /\ collector.readErrors = 1
    /\ collector.writeCount = 1 /\ collector.writeErrors = 1
    /\ collector.totalQueries = 2 /\ collector.totalErrors = 2


\* C34: in every snapshot the error count of reads is at most the window
\* count of reads of the same snapshot, and so for writes, also when
\* RecordRead and RecordWrite run between the swaps of the snapshot.
C34_ErrorsWithinWindow ==
    observed.returned # << >> =>
        /\ observed.returned[1].Reads.Errors <= observed.returned[1].Reads.Count
        /\ observed.returned[1].Writes.Errors <= observed.returned[1].Writes.Count

\* C35: in every snapshot the total of errors is at most the total of
\* queries, also when records run between the two loads of the snapshot or
\* beside a Reset.
C35_TotalErrorsWithinQueries ==
    observed.returned # << >> =>
        observed.returned[1].Totals.Errors <= observed.returned[1].Totals.Queries


\* C36: once a client's Stop has returned, the controller stays not running
\* until a client calls Start, also when an UpdateConfig that has decided to
\* restart the fleet is in progress.
C36_StoppedStaysStopped == stopped = "yes" => ~running


\* The active scenario is the one the config names: a custom scenario for the
\* config's table under the name "custom", the scenario of the registry under
\* a name of the registry.
Corresponds(s, cfg) ==
    IF cfg.Scenario = "custom"
    THEN s.name = "custom" /\ s.table = cfg.CustomTable
    ELSE cfg.Scenario \in Registry => s = Builtin(cfg.Scenario)

\* C38 as stated: after any sequence of SetScenario, SetConfig and
\* UpdateConfig calls the active scenario is the one the config names.
C38_ScenarioMatchesConfig == Corresponds(scenario, config)

\* C38 amended: SetScenario leaves the active scenario and the config in
\* correspondence; UpdateConfig keeps them in correspondence, and so does a
\* SetConfig whose payload holds the scenario name and the custom table of
\* the config it replaces.  (A SetConfig with another name or table installs
\* the payload and leaves the active scenario.)
C38_CorrespondenceKept ==
    [][/\ last'.op = "SetScenario" => Corresponds(scenario', config')
       /\ last'.op = "UpdateConfig" /\ Corresponds(scenario, config) =>
              Corresponds(scenario', config')
       /\ (last'.op = "SetConfig" /\ ~ScenarioChanged(config, config')
              /\ Corresponds(scenario, config)) => Corresponds(scenario', config')]_vars

\* C38 witness: an UpdateConfig has replaced the jsonb scenario by a custom
\* scenario on table t1.
C38_Witness ==
    /\ last.op = "UpdateConfig"
    /\ {"Scenario", "CustomTable"} \subseteq last.diff
    /\ config.Scenario = "custom" /\ config.CustomTable = "t1"
    /\ scenario.name = "custom" /\ scenario.table = "t1"


\* C37: when every UpdateConfig call on a started controller has returned,
\* the controller is running and its workers are the fleet Start makes of the
\* config: as many workers as the config has connections, none of them
\* cancelled, each with the active scenario, which is the one the config
\* names, and with the churn rate of the config.
C37_FleetOfLastConfig ==
    (last.op # "NewController" /\ \A c \in Clients : pc[c] = "idle") =>
        /\ running
        /\ BagCardinality(workers) = config.Connections
        /\ CountOf("reader") = NumReaders(config.Connections)
        /\ \A w \in LiveWorkers :
              /\ ~Done(w)
              /\ w.scenario = scenario
              /\ w.churnRate = ChurnPerConn(config)
        /\ Corresponds(scenario, config)

\* C37 witness: the Start of a restart has found the controller running (the
\* restart of the other client has started it in between), every call has
\* returned, and the fleet is of two connections on a custom scenario.
C37_Witness ==
    /\ last.op = "UpdateStart" /\ last.wasRunning
    /\ \A c \in Clients : pc[c] = "idle"
    /\ config.Connections = 2
    /\ BagCardinality(workers) = 2

====
